---------------------------- MODULE Spec2Model ----------------------------
(***************************************************************************)
(* A model of the stored-procedure invocation pipeline of                  *)
(* mssql-data-source: the MSSQLDataSource facade, the DatabaseExecutor,    *)
(* the ConnectionManager with its two process-wide pool caches, the        *)
(* StoredProcedureCacheManager, the StoredProcedureMetadataManager and the *)
(* StoredProcedureManager.                                                 *)
(*                                                                         *)
(* Every invocation of executeStoredProcedureQuery/Mutation is a process.  *)
(* One action is one synchronous segment of the JavaScript code: the code  *)
(* that runs between two awaits.  Segments of different invocations        *)
(* interleave freely, as the event loop allows.                            *)
(*                                                                         *)
(* Text (parameter names, input keys, SQL type names, default literals) is *)
(* modelled as a sequence of one-character strings, so that toLowerCase,   *)
(* startsWith, slice, Number() and camelCase are computed, not assumed.    *)
(***************************************************************************)
EXTENDS Integers, Sequences, FiniteSets, TLC

(***************************************************************************)
(* Bounds of the model.                                                    *)
(***************************************************************************)
\* The number of invocations of the facade made in one behaviour.
MaxInv == 2
\* The number of cache entries the TTL/LRU stores may drop in one behaviour.
MaxExpire == 1

(***************************************************************************)
(* Text helpers.                                                           *)
(***************************************************************************)
UpperChars == <<"A","B","C","D","E","F","G","H","I","J","K","L","M",
                "N","O","P","Q","R","S","T","U","V","W","X","Y","Z">>
LowerChars == <<"a","b","c","d","e","f","g","h","i","j","k","l","m",
                "n","o","p","q","r","s","t","u","v","w","x","y","z">>
DigitChars == <<"0","1","2","3","4","5","6","7","8","9">>

UpperSet == {UpperChars[i] : i \in DOMAIN UpperChars}
LowerSet == {LowerChars[i] : i \in DOMAIN LowerChars}
DigitSet == {DigitChars[i] : i \in DOMAIN DigitChars}

IsUpper(c) == c \in UpperSet
IsLower(c) == c \in LowerSet
IsDigit(c) == c \in DigitSet

\* The lower-case letter of each upper-case letter, and the converse.
LowerOf == [c \in UpperSet |-> LowerChars[CHOOSE i \in DOMAIN UpperChars : UpperChars[i] = c]]
UpperOf == [c \in LowerSet |-> UpperChars[CHOOSE i \in DOMAIN LowerChars : LowerChars[i] = c]]

LowerChar(c) == IF IsUpper(c) THEN LowerOf[c] ELSE c

UpperChar(c) == IF IsLower(c) THEN UpperOf[c] ELSE c

\* String.prototype.toLowerCase
ToLowerCase(s) == [i \in DOMAIN s |-> LowerChar(s[i])]

\* String.prototype.startsWith
StartsWith(s, prefix) ==
  /\ Len(prefix) <= Len(s)
  /\ \A i \in DOMAIN prefix : s[i] = prefix[i]

\* String.prototype.slice(1)
Slice1(s) == IF Len(s) = 0 THEN s ELSE Tail(s)

DigitValues == [c \in DigitSet |-> (CHOOSE i \in DOMAIN DigitChars : DigitChars[i] = c) - 1]

DigitValue(c) == DigitValues[c]

RECURSIVE DigitsValue(_)
DigitsValue(s) ==
  IF Len(s) = 0 THEN 0
  ELSE 10 * DigitsValue(SubSeq(s, 1, Len(s) - 1)) + DigitValue(s[Len(s)])

AllDigits(s) == Len(s) > 0 /\ \A i \in DOMAIN s : IsDigit(s[i])

(***************************************************************************)
(* JavaScript values.  A value is a record [t, n, s]: t is the type tag, n *)
(* the payload of a number or boolean and s the payload of a string, a     *)
(* date (the text it was made from) or a buffer.                           *)
(***************************************************************************)
JsUndefined == [t |-> "undefined", n |-> 0, s |-> <<>>]
JsNull == [t |-> "null", n |-> 0, s |-> <<>>]
JsNaN == [t |-> "NaN", n |-> 0, s |-> <<>>]
JsNumber(n) == [t |-> "number", n |-> n, s |-> <<>>]
JsString(s) == [t |-> "string", n |-> 0, s |-> s]
JsBoolean(b) == [t |-> "boolean", n |-> IF b THEN 1 ELSE 0, s |-> <<>>]
JsDate(s) == [t |-> "date", n |-> 0, s |-> s]
JsBuffer(s) == [t |-> "buffer", n |-> 0, s |-> s]

IsUndefined(x) == x.t = "undefined"

\* A column of the catalog that holds no number (SQL NULL).
NoNumber == 0 - 1

\* Number(text): the empty string is 0, a decimal integer is its value,
\* anything else is NaN.
ToNumber(s) ==
  IF Len(s) = 0 THEN JsNumber(0)
  ELSE IF AllDigits(s) THEN JsNumber(DigitsValue(s))
  ELSE IF s[1] = "-" /\ AllDigits(Tail(s)) THEN JsNumber(0 - DigitsValue(Tail(s)))
  ELSE JsNaN

(***************************************************************************)
(* Type Mapper (type-map.ts).                                              *)
(***************************************************************************)
\* The driver's TYPES object: its keys are the type constructors.  Each is a
\* JavaScript function, so besides what its result carries it has the
\* properties every function has.
FunctionProperties == {"length", "name", "prototype"}

TYPES == <<
  [key |-> <<"V","a","r","C","h","a","r">>, ctor |-> "VarChar", props |-> FunctionProperties],
  [key |-> <<"N","V","a","r","C","h","a","r">>, ctor |-> "NVarChar", props |-> FunctionProperties],
  [key |-> <<"I","n","t">>, ctor |-> "Int", props |-> FunctionProperties],
  [key |-> <<"B","i","t">>, ctor |-> "Bit", props |-> FunctionProperties],
  [key |-> <<"D","e","c","i","m","a","l">>, ctor |-> "Decimal", props |-> FunctionProperties],
  [key |-> <<"D","a","t","e","T","i","m","e">>, ctor |-> "DateTime", props |-> FunctionProperties],
  [key |-> <<"D","a","t","e","T","i","m","e","2">>, ctor |-> "DateTime2", props |-> FunctionProperties],
  [key |-> <<"T","V","P">>, ctor |-> "TVP", props |-> FunctionProperties] >>

\* The family the driver's typings give each constructor: what it takes.
Family(ctor) ==
  CASE ctor \in {"VarChar", "NVarChar"} -> "length"
    [] ctor = "DateTime2" -> "scale"
    [] ctor = "Decimal" -> "precisionScale"
    [] ctor = "TVP" -> "tvpType"
    [] OTHER -> "none"

\* What the driver's constructor `ctor` returns when called with (a1, a2): the
\* type with the arguments the constructor takes, the others being dropped.
DriverTypeOf(ctor, a1, a2) ==
  [type |-> ctor,
   a1 |-> IF Family(ctor) = "none" THEN NoNumber ELSE a1,
   a2 |-> IF Family(ctor) = "precisionScale" THEN a2 ELSE NoNumber]

isSqlTypeFactoryWithNoParams(factory) ==
  /\ "length" \notin factory.props
  /\ "scale" \notin factory.props
  /\ "precision" \notin factory.props
  /\ "tvpType" \notin factory.props

isSqlTypeFactoryWithLength(factory) == "length" \in factory.props

isSqlTypeFactoryWithScale(factory) == "scale" \in factory.props

isSqlTypeFactoryWithPrecisionScale(factory) ==
  "precision" \in factory.props /\ "scale" \in factory.props

isSqlTypeFactoryWithTvpType(factory) == "tvpType" \in factory.props

\* The index in TYPES of the first key equal to `propertyName` ignoring case,
\* 0 when there is none.
LowerCaseKeys == [i \in DOMAIN TYPES |-> ToLowerCase(TYPES[i].key)]

findPropertyCaseInsensitive(propertyName) ==
  LET lower == ToLowerCase(propertyName)
      hits == {i \in DOMAIN TYPES : LowerCaseKeys[i] = lower}
  IN IF hits = {} THEN 0 ELSE CHOOSE i \in hits : \A j \in hits : i <= j

mapDbTypeToDriverType(type, length, precision, scale) ==
  LET property == findPropertyCaseInsensitive(type) IN
  IF property # 0 THEN
    LET typeFactory == TYPES[property] IN
    IF isSqlTypeFactoryWithNoParams(typeFactory)
      THEN DriverTypeOf(typeFactory.ctor, NoNumber, NoNumber)
    ELSE IF isSqlTypeFactoryWithLength(typeFactory)
      THEN DriverTypeOf(typeFactory.ctor, length, NoNumber)
    ELSE IF isSqlTypeFactoryWithScale(typeFactory)
      THEN DriverTypeOf(typeFactory.ctor, scale, NoNumber)
    ELSE IF isSqlTypeFactoryWithPrecisionScale(typeFactory)
      THEN DriverTypeOf(typeFactory.ctor, precision, scale)
    ELSE IF isSqlTypeFactoryWithTvpType(typeFactory)
      THEN DriverTypeOf("NVarChar", NoNumber, NoNumber)
    \* The final else (throw 'Unknown SQL Type') is not reachable: a factory
    \* that fails the first test passes one of the others.
    ELSE DriverTypeOf("throw", NoNumber, NoNumber)
  ELSE DriverTypeOf("NVarChar", NoNumber, NoNumber)

\* A faulty variant of isType: the type must be the prefix itself.
IsExactType(sqlType, typePrefixes) == sqlType \in typePrefixes

isType(sqlType, typePrefixes) == \E prefix \in typePrefixes : StartsWith(sqlType, prefix)

CharacterPrefixes == {
  <<"v","a","r","c","h","a","r">>, <<"n","v","a","r","c","h","a","r">>,
  <<"c","h","a","r">>, <<"n","c","h","a","r">>, <<"t","e","x","t">>,
  <<"n","t","e","x","t">>, <<"x","m","l">>,
  <<"u","n","i","q","u","e","i","d","e","n","t","i","f","i","e","r">> }
NumericPrefixes == {
  <<"i","n","t">>, <<"s","m","a","l","l","i","n","t">>, <<"t","i","n","y","i","n","t">>,
  <<"b","i","g","i","n","t">>, <<"d","e","c","i","m","a","l">>,
  <<"n","u","m","e","r","i","c">>, <<"f","l","o","a","t">>, <<"r","e","a","l">>,
  <<"m","o","n","e","y">>, <<"s","m","a","l","l","m","o","n","e","y">> }
BitPrefixes == { <<"b","i","t">> }
TemporalPrefixes == {
  <<"d","a","t","e">>, <<"d","a","t","e","t","i","m","e">>,
  <<"d","a","t","e","t","i","m","e","2">>,
  <<"s","m","a","l","l","d","a","t","e","t","i","m","e">>, <<"t","i","m","e">> }
BinaryPrefixes == {
  <<"b","i","n","a","r","y">>, <<"v","a","r","b","i","n","a","r","y">>,
  <<"i","m","a","g","e">> }
RowVersionPrefixes == {
  <<"r","o","w","v","e","r","s","i","o","n">>, <<"t","i","m","e","s","t","a","m","p">> }
SpatialPrefixes == {
  <<"h","i","e","r","a","r","c","h","y","i","d">>, <<"g","e","o","m","e","t","r","y">>,
  <<"g","e","o","g","r","a","p","h","y">> }
TvpPrefixes == { <<"t","v","p">> }
UdtPrefixes == { <<"u","d","t">> }

\* The result of a function that may throw: [ok, value, error].
Returned(value) == [ok |-> TRUE, value |-> value, error |-> "none"]
Thrown(error) == [ok |-> FALSE, value |-> JsUndefined, error |-> error]

\* convertSqlValueToJsValue(value, sqlType), value being the text the
\* parameter-definition pattern captured.
convertSqlValueToJsValue(value, sqlType) ==
  LET lowerCaseSqlType == ToLowerCase(sqlType) IN
  IF value = <<"N","U","L","L">> THEN Returned(JsNull)
  ELSE IF isType(lowerCaseSqlType, CharacterPrefixes) THEN Returned(JsString(value))
  ELSE IF isType(lowerCaseSqlType, NumericPrefixes) THEN Returned(ToNumber(value))
  ELSE IF isType(lowerCaseSqlType, BitPrefixes) THEN Returned(JsBoolean(Len(value) > 0))
  ELSE IF isType(lowerCaseSqlType, TemporalPrefixes) THEN Returned(JsDate(value))
  ELSE IF isType(lowerCaseSqlType, BinaryPrefixes) THEN Returned(JsBuffer(value))
  ELSE IF isType(lowerCaseSqlType, RowVersionPrefixes) THEN Returned(JsBuffer(value))
  ELSE IF isType(lowerCaseSqlType, SpatialPrefixes) THEN Returned(JsString(value))
  ELSE IF isType(lowerCaseSqlType, TvpPrefixes) THEN Thrown("TVPs are not supported")
  ELSE IF isType(lowerCaseSqlType, UdtPrefixes) THEN Thrown("UDTs are not supported")
  ELSE Thrown("Unsupported SQL type")

(***************************************************************************)
(* JavaScript objects and Maps: a sequence of [k, v] entries with distinct *)
(* keys, in insertion order.                                               *)
(***************************************************************************)
Keys(obj) == {obj[i].k : i \in DOMAIN obj}
HasKey(obj, key) == \E i \in DOMAIN obj : obj[i].k = key
IndexOfKey(obj, key) == CHOOSE i \in DOMAIN obj : obj[i].k = key
Get(obj, key) == obj[IndexOfKey(obj, key)].v

\* obj[key] = value / map.set(key, value): an existing key keeps its place.
Put(obj, key, value) ==
  IF HasKey(obj, key)
    THEN [obj EXCEPT ![IndexOfKey(obj, key)] = [k |-> key, v |-> value]]
    ELSE Append(obj, [k |-> key, v |-> value])

(***************************************************************************)
(* lodash camelCase, for the text this model uses: letters, digits and     *)
(* separators.                                                             *)
(***************************************************************************)
IsAlnum(c) == IsUpper(c) \/ IsLower(c) \/ IsDigit(c)

\* Whether a word of lodash's words() starts at position i of s.
WordStart(s, i) ==
  /\ IsAlnum(s[i])
  /\ \/ i = 1
     \/ ~IsAlnum(s[i - 1])
     \/ IsUpper(s[i]) /\ IsLower(s[i - 1])
     \/ IsDigit(s[i]) # IsDigit(s[i - 1])
     \/ IsUpper(s[i]) /\ IsUpper(s[i - 1]) /\ i < Len(s) /\ IsLower(s[i + 1])

RECURSIVE CamelFrom(_, _)
CamelFrom(s, i) ==
  IF i > Len(s) THEN <<>>
  ELSE IF ~IsAlnum(s[i]) THEN CamelFrom(s, i + 1)
  ELSE IF WordStart(s, i) /\ \E j \in 1..(i - 1) : IsAlnum(s[j])
    THEN <<UpperChar(s[i])>> \o CamelFrom(s, i + 1)
  ELSE <<LowerChar(s[i])>> \o CamelFrom(s, i + 1)

camelCase(s) == CamelFrom(s, 1)

(***************************************************************************)
(* Stored-Procedure Metadata Manager: parseStoredProcedureParameters.      *)
(*                                                                         *)
(* A schema is the IResult of the introspection query: `rows` is           *)
(* recordsets[0], the catalog rows, and `definition` is what the three     *)
(* patterns make of recordsets[1][0].storedProcedureDefinition:            *)
(*   commentStripped   "empty" when the text without comments is '',       *)
(*   parameterSection  whether parameterSectionRegex matches,              *)
(*   declarations      the matches of parameterDefinitionRegex in the      *)
(*                     parameter section, in order: [name, type, value].   *)
(* lastIndex is the lastIndex of the static, global parameterDefinition-   *)
(* Regex, counted in declarations: the declarations of the definitions are *)
(* taken to be of one width, so that an exec that starts at lastIndex k    *)
(* passes over the first k declarations of the text it is given.           *)
(***************************************************************************)
\* parameterSchemaMap: the index in rows of the row the Map holds for `name`
\* (the last row with that name), 0 when the Map has no such key.
SchemaMapIndex(rows, name) ==
  LET hits == {i \in DOMAIN rows : rows[i].name = name}
  IN IF hits = {} THEN 0 ELSE CHOOSE i \in hits : \A j \in hits : j <= i

\* parameterSchemaMap.values(): one row per distinct name, in the order the
\* names were first inserted.
SchemaMapValues(rows) ==
  LET first == {i \in DOMAIN rows : \A j \in 1..(i - 1) : rows[j].name # rows[i].name}
      RECURSIVE Collect(_)
      Collect(i) ==
        IF i > Len(rows) THEN <<>>
        ELSE IF i \in first
          THEN <<rows[SchemaMapIndex(rows, rows[i].name)]>> \o Collect(i + 1)
        ELSE Collect(i + 1)
  IN Collect(1)

\* The while loop over parameterDefinitionRegex.exec, from declaration i.
RECURSIVE ParameterDefinitionLoop(_, _, _)
ParameterDefinitionLoop(rows, declarations, i) ==
  IF i > Len(declarations)
    THEN [ok |-> TRUE, error |-> "none", rows |-> rows, lastIndex |-> 0]
  ELSE
    LET match == declarations[i]
        parameter == SchemaMapIndex(rows, match.name)
    IN IF parameter = 0
         THEN ParameterDefinitionLoop(rows, declarations, i + 1)
       ELSE
         LET converted == convertSqlValueToJsValue(match.value, match.type) IN
         IF converted.ok
           THEN ParameterDefinitionLoop(
                  [rows EXCEPT ![parameter].defaultValue = converted.value],
                  declarations, i + 1)
           ELSE [ok |-> FALSE, error |-> converted.error, rows |-> rows, lastIndex |-> i]

\* parseStoredProcedureParameters(name, schemaResult), run with the pattern's
\* lastIndex as the previous call left it.  `rows` is recordsets[0] as the
\* call leaves it (the row objects are written in place), `parameters` what
\* it returns.
parseStoredProcedureParameters(schema, lastIndex) ==
  IF schema.definition.commentStripped = "empty"
    THEN [ok |-> FALSE, error |-> "Could not parse stored procedure comments",
          rows |-> schema.rows, lastIndex |-> lastIndex, parameters |-> <<>>]
  ELSE IF ~schema.definition.parameterSection
    THEN [ok |-> FALSE, error |-> "Could not parse stored procedure parameters",
          rows |-> schema.rows, lastIndex |-> lastIndex, parameters |-> <<>>]
  ELSE
    LET loop == ParameterDefinitionLoop(schema.rows, schema.definition.declarations,
                                        lastIndex + 1)
    IN [ok |-> loop.ok, error |-> loop.error, rows |-> loop.rows,
        lastIndex |-> loop.lastIndex,
        parameters |-> IF loop.ok THEN SchemaMapValues(loop.rows) ELSE <<>>]

(***************************************************************************)
(* Stored-Procedure Manager: prepare, validate, bind.                      *)
(***************************************************************************)
RECURSIVE PreparedFrom(_, _)
PreparedFrom(storedProcedureParameters, i) ==
  IF i = 0 THEN <<>>
  ELSE
    LET spParameter == storedProcedureParameters[i]
        parameterName == Slice1(spParameter.name)
    IN Put(PreparedFrom(storedProcedureParameters, i - 1),
           ToLowerCase(parameterName),
           [name |-> parameterName,
            type |-> mapDbTypeToDriverType(spParameter.type, spParameter.length,
                                           spParameter.precision, spParameter.scale),
            value |-> JsUndefined,
            mode |-> spParameter.mode,
            defaultValue |-> spParameter.defaultValue])

\* A faulty variant of PopulateFrom: the input key is looked up as written.
RECURSIVE PopulateExactKeys(_, _, _)
PopulateExactKeys(preparedParameters, input, i) ==
  IF i = 0 THEN preparedParameters
  ELSE
    LET before == PopulateExactKeys(preparedParameters, input, i - 1)
        key == input[i].k
    IN IF HasKey(before, key)
         THEN Put(before, key, [Get(before, key) EXCEPT !.value = input[i].v])
         ELSE before

\* The loop over the keys of the input, up to its i-th key.
RECURSIVE PopulateFrom(_, _, _)
PopulateFrom(preparedParameters, input, i) ==
  IF i = 0 THEN preparedParameters
  ELSE
    LET before == PopulateFrom(preparedParameters, input, i - 1)
        key == ToLowerCase(input[i].k)
    IN IF HasKey(before, key)
         THEN Put(before, key, [Get(before, key) EXCEPT !.value = input[i].v])
         ELSE before

\* prepareParameters(storedProcedureParameters, input): a Map from the
\* lower-cased name to the prepared parameter.
prepareParameters(storedProcedureParameters, input) ==
  PopulateFrom(PreparedFrom(storedProcedureParameters, Len(storedProcedureParameters)),
               input, Len(input))

IsMissing(entry) == IsUndefined(entry.v.defaultValue) /\ IsUndefined(entry.v.value)

\* A faulty variant of getMissingRequiredParameters: it stops at the first
\* missing parameter.
MissingFirstOnly(parameters) ==
  LET all == SelectSeq(parameters, IsMissing)
  IN IF Len(all) = 0 THEN <<>> ELSE <<all[1].v.name>>

\* getMissingRequiredParameters(parameters): the names, in Map order.
getMissingRequiredParameters(parameters) ==
  LET all == SelectSeq(parameters, IsMissing)
  IN [i \in DOMAIN all |-> all[i].v.name]

\* A Request of the driver: the pool it is bound to and the parameters
\* registered on it with input() and output().
NewRequest(pool) == [pool |-> pool, parameters |-> <<>>]

RECURSIVE AddParametersFrom(_, _, _)
AddParametersFrom(parameters, request, i) ==
  IF i > Len(parameters) THEN [ok |-> TRUE, request |-> request, error |-> "none"]
  ELSE
    LET parameter == parameters[i].v IN
    IF ~IsUndefined(parameter.defaultValue) /\ IsUndefined(parameter.value)
      THEN AddParametersFrom(parameters, request, i + 1)
    ELSE IF parameter.mode = "IN"
      THEN AddParametersFrom(parameters,
             [request EXCEPT !.parameters =
                Append(@, [name |-> parameter.name, io |-> "input",
                           type |-> parameter.type, value |-> parameter.value])],
             i + 1)
    ELSE IF parameter.mode = "INOUT"
      THEN AddParametersFrom(parameters,
             [request EXCEPT !.parameters =
                Append(@, [name |-> parameter.name, io |-> "output",
                           type |-> parameter.type, value |-> parameter.value])],
             i + 1)
    ELSE [ok |-> FALSE, request |-> request, error |-> "Unknown parameter mode"]

\* A faulty variant of addParametersToRequest: a parameter of another mode
\* than IN and INOUT is passed over.
BindKnownModes(parameters, request) ==
  LET Known(entry) == entry.v.mode \in {"IN", "INOUT"}
  IN AddParametersFrom(SelectSeq(parameters, Known), request, 1)

addParametersToRequest(parameters, request) == AddParametersFrom(parameters, request, 1)

\* An error: what kind, and for the missing-required-parameters error the
\* count and the parameters its message gives.
Error(kind) == [kind |-> kind, count |-> 0, names |-> <<>>]
NoError == Error("none")

\* prepareStoredProcedureRequest(storedProcedureParameters, input, request).
\* `stages` are the stages that ran, in order.
prepareStoredProcedureRequest(storedProcedureParameters, input, request) ==
  LET parameters == prepareParameters(storedProcedureParameters, input)
      missingRequiredParameters == getMissingRequiredParameters(parameters)
      missingLength == Len(missingRequiredParameters)
  IN IF missingLength > 0
       THEN [ok |-> FALSE, request |-> request, stages |-> <<"prepare", "validate">>,
             error |-> [kind |-> "Missing required parameters",
                        count |-> missingLength,
                        names |-> missingRequiredParameters]]
     ELSE
       LET bound == addParametersToRequest(parameters, request) IN
       [ok |-> bound.ok, request |-> bound.request,
        stages |-> <<"prepare", "validate", "bind">>,
        error |-> Error(bound.error)]

(***************************************************************************)
(* Stored-Procedure Manager: prepareStoredProcedureResult.                 *)
(*                                                                         *)
(* A field of the envelope holds a value (kind "value": js), a list of     *)
(* numbers (kind "numbers": nums) or the record sets (kind "sets": sets).  *)
(***************************************************************************)
EnvValue(x) == [kind |-> "value", js |-> x, nums |-> <<>>, sets |-> <<>>]
EnvNumbers(s) == [kind |-> "numbers", js |-> JsUndefined, nums |-> s, sets |-> <<>>]
EnvSets(s) == [kind |-> "sets", js |-> JsUndefined, nums |-> <<>>, sets |-> s]

\* The name tables are plain objects ({}), so mapping[name] is the table's own
\* entry or, for a name Object.prototype has, the inherited value: the Object
\* function under "constructor" and the prototype itself under "__proto__".
\* Used as a property key, the value becomes its text.
ConstructorKey == <<"c","o","n","s","t","r","u","c","t","o","r">>
ProtoKey == <<"_","_","p","r","o","t","o","_","_">>
ObjectFunctionText == <<"function Object() { [native code] }">>
ObjectPrototypeText == <<"[object Object]">>

IsNullish(mapping, name) == ~HasKey(mapping, name) /\ name \notin {ConstructorKey, ProtoKey}

Lookup(mapping, name) ==
  IF HasKey(mapping, name) THEN Get(mapping, name)
  ELSE IF name = ConstructorKey THEN ObjectFunctionText
  ELSE ObjectPrototypeText

\* mapKeysWithMapping(obj, mapping): mapping[key.toLowerCase()] ?? camelCase(key)
RECURSIVE MapKeysFrom(_, _, _)
MapKeysFrom(obj, mapping, i) ==
  IF i = 0 THEN <<>>
  ELSE
    LET key == obj[i].k
        lower == ToLowerCase(key)
        mappedKey == IF IsNullish(mapping, lower) THEN camelCase(key) ELSE Lookup(mapping, lower)
    IN Put(MapKeysFrom(obj, mapping, i - 1), mappedKey, obj[i].v)

mapKeysWithMapping(obj, mapping) == MapKeysFrom(obj, mapping, Len(obj))

\* { returnValue, resultSets, rowsAffected, ...output }
RECURSIVE SpreadFrom(_, _, _)
SpreadFrom(target, output, i) ==
  IF i = 0 THEN target
  ELSE Put(SpreadFrom(target, output, i - 1), output[i].k, EnvValue(output[i].v))

resultSetsKey == <<"r","e","s","u","l","t","S","e","t","s">>
returnValueKey == <<"r","e","t","u","r","n","V","a","l","u","e">>
rowsAffectedKey == <<"r","o","w","s","A","f","f","e","c","t","e","d">>

\* prepareStoredProcedureResult(result, info): resultSetFields and
\* outputFields are the two name tables made from info ({} without info).
prepareStoredProcedureResult(result, resultSetFields, outputFields) ==
  LET resultSets ==
        [s \in DOMAIN result.recordsets |->
          [r \in DOMAIN result.recordsets[s] |->
            mapKeysWithMapping(result.recordsets[s][r], resultSetFields)]]
      output == mapKeysWithMapping(result.output, outputFields)
      base == << [k |-> returnValueKey, v |-> EnvValue(result.returnValue)],
                 [k |-> resultSetsKey, v |-> EnvSets(resultSets)],
                 [k |-> rowsAffectedKey, v |-> EnvNumbers(result.rowsAffected)] >>
  IN SpreadFrom(base, output, Len(output))

(***************************************************************************)
(* The database the model runs against: three procedures.                  *)
(***************************************************************************)
CatalogRow(name, type, mode, length) ==
  [name |-> name, type |-> type, mode |-> mode, length |-> length,
   precision |-> NoNumber, scale |-> NoNumber, defaultValue |-> JsUndefined]

Declaration(name, type, value) == [name |-> name, type |-> type, value |-> value]

tInt == <<"i","n","t">>
tNVarChar == <<"n","v","a","r","c","h","a","r">>
tSqlVariant == <<"s","q","l","_","v","a","r","i","a","n","t">>

(***************************************************************************)
(* The text of a definition and the three patterns.                        *)
(*                                                                         *)
(* A text is a sequence of tokens: "CREATE PROCEDURE", the procedure name  *)
(* "dbo.P", "AS" (the letters AS before a character that is not of a       *)
(* word, be it the keyword or the end of a word of a comment), "space",    *)
(* "newline", the comment marks "--", "/*" and "*/", "word" (any other     *)
(* text of a comment) and the declarations of DeclarationTexts.            *)
(***************************************************************************)
IsSpace(token) == token \in {"space", "newline"}

Tokens(text) == {text[i] : i \in DOMAIN text}

\* $ under the m flag, before the i-th token.
AtLineEnd(text, i) == i > Len(text) \/ text[i] = "newline"

\* The least index from i on whose token satisfies Test, Len(text) + 1
\* without one.  Test is a function of the token.
RECURSIVE FirstFrom(_, _, _)
FirstFrom(text, i, Test) ==
  IF i > Len(text) \/ Test[text[i]] THEN i ELSE FirstFrom(text, i + 1, Test)

\* commentRegex, first alternative, \s*-{2}.+\s*$, tried at i: the index
\* after the match, 0 without a match.
LineCommentEnd(text, i) ==
  LET NotSpace == [t \in Tokens(text) |-> ~IsSpace(t)]
      IsNewline == [t \in Tokens(text) |-> t = "newline"]
      dashes == FirstFrom(text, i, NotSpace)
      lineEnd == FirstFrom(text, dashes + 2, IsNewline)
      afterSpace == FirstFrom(text, lineEnd, NotSpace)
      ends == {m \in lineEnd..afterSpace : AtLineEnd(text, m)}
  IN IF dashes > Len(text) \/ text[dashes] # "--" THEN 0
     ELSE IF dashes + 1 > Len(text) \/ text[dashes + 1] = "newline" THEN 0
     ELSE CHOOSE m \in ends : \A n \in ends : n <= m

\* commentRegex, second alternative, \/\*([\s\S]*?)\*\/, tried at i.
BlockCommentEnd(text, i) ==
  LET IsClose == [t \in Tokens(text) |-> t = "*/"]
      close == FirstFrom(text, i + 1, IsClose)
  IN IF text[i] # "/*" \/ close > Len(text) THEN 0 ELSE close + 1

\* definition.replace(commentRegex, ''), from the i-th token on.
RECURSIVE ReplaceComments(_, _)
ReplaceComments(text, i) ==
  IF i > Len(text) THEN <<>>
  ELSE IF LineCommentEnd(text, i) # 0 THEN ReplaceComments(text, LineCommentEnd(text, i))
  ELSE IF BlockCommentEnd(text, i) # 0 THEN ReplaceComments(text, BlockCommentEnd(text, i))
  ELSE <<text[i]>> \o ReplaceComments(text, i + 1)

\* match(parameterSectionRegex): after CREATE PROCEDURE, space and the name,
\* the shortest text before an AS; group 8 of the match.
ParameterSectionMatch(text) ==
  LET NotSpace == [t \in Tokens(text) |-> ~IsSpace(t)]
      IsAs == [t \in Tokens(text) |-> t = "AS"]
      starts == {i \in DOMAIN text :
                   /\ text[i] = "CREATE PROCEDURE"
                   /\ i + 1 <= Len(text) /\ IsSpace(text[i + 1])
                   /\ FirstFrom(text, i + 1, NotSpace) <= Len(text)
                   /\ text[FirstFrom(text, i + 1, NotSpace)] = "dbo.P"
                   /\ FirstFrom(text, FirstFrom(text, i + 1, NotSpace) + 1, IsAs) <= Len(text)}
      start == CHOOSE i \in starts : \A j \in starts : i <= j
      name == FirstFrom(text, start + 1, NotSpace)
  IN IF starts = {} THEN [found |-> FALSE, group8 |-> <<>>]
     ELSE [found |-> TRUE,
           group8 |-> SubSeq(text, name + 1, FirstFrom(text, name + 1, IsAs) - 1)]

DeclarationTexts == {"@A INT = 1,", "@A INT = 5,", "@B INT = 2"}

\* What parameterDefinitionRegex captures in a declaration.
Captures(token) ==
  CASE token = "@A INT = 1," -> Declaration(<<"@","A">>, <<"I","N","T">>, <<"1">>)
    [] token = "@A INT = 5," -> Declaration(<<"@","A">>, <<"I","N","T">>, <<"5">>)
    [] OTHER -> Declaration(<<"@","B">>, <<"I","N","T">>, <<"2">>)

\* The matches of parameterDefinitionRegex in the parameter section.
ParameterDefinitionMatches(section) ==
  LET IsDeclaration(t) == t \in DeclarationTexts
      matches == SelectSeq(section, IsDeclaration)
  IN [i \in DOMAIN matches |-> Captures(matches[i])]

(***************************************************************************)
(* parameterDefinitionRegex, character by character: "@" and characters   *)
(* of a word (the name), spaces, text without space (the type), spaces if  *)
(* any, "=", spaces if any, text without comma or space (the value), and a *)
(* comma if there is one.  For parameter sections written with letters,    *)
(* digits, "_", "@", parentheses, ",", "=" and spaces.                     *)
(***************************************************************************)
IsWordChar(c) == IsAlnum(c) \/ c = "_"

\* The least index from i on whose character is not in `class`.
RECURSIVE EndOfRun(_, _, _)
EndOfRun(s, i, class) ==
  IF i > Len(s) \/ ~class[s[i]] THEN i ELSE EndOfRun(s, i + 1, class)

\* The match of the pattern that starts at position i of the section:
\* [found, name, type, value, lastIndex], lastIndex being the position after
\* the match.  The type is the longest text without space that "=" follows,
\* directly or after spaces.
MatchAt(section, i) ==
  LET chars == {section[k] : k \in DOMAIN section}
      Word == [c \in chars |-> IsWordChar(c)]
      Space == [c \in chars |-> c = " "]
      NoSpace == [c \in chars |-> c # " "]
      Value == [c \in chars |-> c \notin {",", " "}]
      nameEnd == EndOfRun(section, i + 1, Word)
      typeStart == EndOfRun(section, nameEnd, Space)
      runEnd == EndOfRun(section, typeStart, NoSpace)
      afterRun == EndOfRun(section, runEnd, Space)
      ends == {e \in (typeStart + 1)..runEnd :
                 IF e = runEnd THEN afterRun <= Len(section) /\ section[afterRun] = "="
                 ELSE section[e] = "="}
      typeEnd == CHOOSE e \in ends : \A f \in ends : f <= e
      equals == IF typeEnd = runEnd THEN afterRun ELSE typeEnd
      valueStart == EndOfRun(section, equals + 1, Space)
      valueEnd == EndOfRun(section, valueStart, Value)
      miss == [found |-> FALSE, name |-> <<>>, type |-> <<>>, value |-> <<>>, lastIndex |-> 0]
  IN IF section[i] # "@" \/ nameEnd = i + 1 THEN miss
     ELSE IF typeStart = nameEnd \/ ends = {} THEN miss
     ELSE [found |-> TRUE,
           name |-> SubSeq(section, i, nameEnd - 1),
           type |-> SubSeq(section, typeStart, typeEnd - 1),
           value |-> SubSeq(section, valueStart, valueEnd - 1),
           lastIndex |-> IF valueEnd <= Len(section) /\ section[valueEnd] = ","
                           THEN valueEnd + 1 ELSE valueEnd]

\* parameterDefinitionRegex.exec(section) with the pattern's position at i:
\* the first match from there on.
RECURSIVE Exec(_, _)
Exec(section, i) ==
  IF i > Len(section) THEN MatchAt(<<" ">>, 1)
  ELSE IF MatchAt(section, i).found THEN MatchAt(section, i)
  ELSE Exec(section, i + 1)

\* The matches the while loop goes through, from position i of the section.
RECURSIVE ExecAll(_, _)
ExecAll(section, i) ==
  LET match == Exec(section, i) IN
  IF ~match.found THEN <<>>
  ELSE <<Declaration(match.name, match.type, match.value)>> \o ExecAll(section, match.lastIndex)

\* What the three patterns make of the text of a definition.
DefinitionOf(text) ==
  LET commentStripped == ReplaceComments(text, 1)
      parameterSection == ParameterSectionMatch(commentStripped)
  IN [commentStripped |-> IF commentStripped = <<>> THEN "empty" ELSE "text",
      parameterSection |-> parameterSection.found,
      declarations |-> ParameterDefinitionMatches(parameterSection.group8)]

\* The text without its comments, as Transact-SQL reads them: a line comment
\* runs from -- to the end of the line, a block comment from /* to the */
\* that closes it, block comments nesting.  `depth` is the number of open
\* block comments, `line` whether a line comment is open.
RECURSIVE WithoutComments(_, _, _, _)
WithoutComments(text, i, depth, line) ==
  IF i > Len(text) THEN <<>>
  ELSE IF line
    THEN IF text[i] = "newline" THEN <<text[i]>> \o WithoutComments(text, i + 1, 0, FALSE)
         ELSE WithoutComments(text, i + 1, 0, TRUE)
  ELSE IF depth > 0
    THEN IF text[i] = "/*" THEN WithoutComments(text, i + 1, depth + 1, FALSE)
         ELSE IF text[i] = "*/" THEN WithoutComments(text, i + 1, depth - 1, FALSE)
         ELSE WithoutComments(text, i + 1, depth, FALSE)
  ELSE IF text[i] = "--" THEN WithoutComments(text, i + 1, 0, TRUE)
  ELSE IF text[i] = "/*" THEN WithoutComments(text, i + 1, 1, FALSE)
  ELSE <<text[i]>> \o WithoutComments(text, i + 1, 0, FALSE)

\* CREATE PROCEDURE dbo.GetPeople @Page INT, @PageSize INT, @RecordCount INT OUTPUT AS ...
GetPeopleSchema ==
  [rows |-> << CatalogRow(<<"@","P","a","g","e">>, tInt, "IN", NoNumber),
               CatalogRow(<<"@","P","a","g","e","S","i","z","e">>, tInt, "IN", NoNumber),
               CatalogRow(<<"@","R","e","c","o","r","d","C","o","u","n","t">>, tInt, "INOUT",
                          NoNumber) >>,
   definition |-> [commentStripped |-> "text", parameterSection |-> TRUE,
                   declarations |-> <<>>]]

\* CREATE PROCEDURE dbo.SavePerson @Name NVARCHAR(50), @Age INT = 30,
\*   @Note NVARCHAR(50) = NULL, @Id INT OUTPUT AS ...
SavePersonSchema ==
  [rows |-> << CatalogRow(<<"@","N","a","m","e">>, tNVarChar, "IN", 50),
               CatalogRow(<<"@","A","g","e">>, tInt, "IN", NoNumber),
               CatalogRow(<<"@","N","o","t","e">>, tNVarChar, "IN", 50),
               CatalogRow(<<"@","I","d">>, tInt, "INOUT", NoNumber) >>,
   definition |->
     [commentStripped |-> "text", parameterSection |-> TRUE,
      declarations |->
        << Declaration(<<"@","A","g","e">>, <<"I","N","T">>, <<"3","0">>),
           Declaration(<<"@","N","o","t","e">>,
                       <<"N","V","A","R","C","H","A","R","(","5","0",")">>,
                       <<"N","U","L","L">>) >>]]

\* CREATE PROCEDURE dbo.Audit @A INT = 1, @B SQL_VARIANT = 2 AS ...
AuditSchema ==
  [rows |-> << CatalogRow(<<"@","A">>, tInt, "IN", NoNumber),
               CatalogRow(<<"@","B">>, tSqlVariant, "IN", NoNumber) >>,
   definition |->
     [commentStripped |-> "text", parameterSection |-> TRUE,
      declarations |->
        << Declaration(<<"@","A">>, <<"I","N","T">>, <<"1">>),
           Declaration(<<"@","B">>, <<"S","Q","L","_","V","A","R","I","A","N","T">>,
                       <<"2">>) >>]]

\* CREATE PROCEDURE dbo.Legacy @X INT AS ..., which the catalog reports
\* with the mode OUT.
LegacySchema ==
  [rows |-> << CatalogRow(<<"@","X">>, tInt, "OUT", NoNumber) >>,
   definition |-> [commentStripped |-> "text", parameterSection |-> TRUE,
                   declarations |-> <<>>]]

ProcedureNames == {"dbo.GetPeople", "dbo.SavePerson", "dbo.Audit", "dbo.Legacy"}

\* What the catalog and OBJECT_DEFINITION hold for a procedure.
Catalog(name) ==
  CASE name = "dbo.GetPeople" -> GetPeopleSchema
    [] name = "dbo.SavePerson" -> SavePersonSchema
    [] name = "dbo.Audit" -> AuditSchema
    [] OTHER -> LegacySchema

\* The answers the driver can give to the introspection query: the number of
\* record sets, the number of rows of the second one, or a request error.
IntrospectionAnswers ==
  { [error |-> FALSE, recordsets |-> 2, definitionRows |-> 1],
    [error |-> FALSE, recordsets |-> 0, definitionRows |-> 0],
    [error |-> FALSE, recordsets |-> 1, definitionRows |-> 0],
    [error |-> FALSE, recordsets |-> 2, definitionRows |-> 0],
    [error |-> FALSE, recordsets |-> 2, definitionRows |-> 2],
    [error |-> FALSE, recordsets |-> 3, definitionRows |-> 1],
    [error |-> TRUE, recordsets |-> 0, definitionRows |-> 0] }

\* No answer has come.
NoAnswer == [error |-> FALSE, recordsets |-> 0 - 1, definitionRows |-> 0]

SchemaNotRetrieved == "Could not retrieve stored procedure parameter schema"
DefinitionNotRetrieved == "Could not retrieve stored procedure definition"

\* A faulty variant of CheckRecordsets: two record sets are enough.
TwoRecordsetsSuffice(answer) ==
  IF answer.recordsets = 2 THEN "none" ELSE SchemaNotRetrieved

\* The checks getStoredProcedureParameterSchema makes of the answer to the
\* introspection query: the error it throws, "none" when it returns it.
CheckRecordsets(answer) ==
  LET recordSetLength == answer.recordsets IN
  IF recordSetLength < 1 \/ recordSetLength > 2 THEN SchemaNotRetrieved
  ELSE IF recordSetLength # 2 \/ answer.definitionRows # 1 THEN DefinitionNotRetrieved
  ELSE "none"

FirstNameKey == <<"F","i","r","s","t","N","a","m","e">>
IdKey == <<"I","d">>

\* The record sets a procedure returns.
ProcedureRecordsets(name) ==
  IF name = "dbo.GetPeople"
    THEN << << << [k |-> IdKey, v |-> JsNumber(1)], [k |-> FirstNameKey, v |-> JsNumber(11)] >>,
               << [k |-> IdKey, v |-> JsNumber(2)], [k |-> FirstNameKey, v |-> JsNumber(12)] >> >> >>
    ELSE <<>>

\* The value the procedure leaves in each output parameter.
OutputValue == JsNumber(10)

RECURSIVE OutputFrom(_, _)
OutputFrom(parameters, i) ==
  IF i = 0 THEN <<>>
  ELSE IF parameters[i].io = "output"
    THEN Put(OutputFrom(parameters, i - 1), parameters[i].name, OutputValue)
  ELSE OutputFrom(parameters, i - 1)

\* request.execute(name), when the driver does not fail.
ProcedureResult(name, request) ==
  [recordsets |-> ProcedureRecordsets(name),
   output |-> OutputFrom(request.parameters, Len(request.parameters)),
   returnValue |-> JsNumber(0),
   rowsAffected |-> <<1>>]

(***************************************************************************)
(* Loggers.                                                                *)
(***************************************************************************)
DevConsoleLogger == "DevConsoleLogger"

\* What the `info` of a logger is: "logs" a method that returns, "noInfo" no
\* such method, "throws" a method that may throw.
LoggerKind(logger) ==
  CASE logger = "bareLogger" -> "noInfo"
    [] logger = "failingLogger" -> "throws"
    [] OTHER -> "logs"

\* logSafely(logger, 'info', ...): the ways the call can end.
logSafely(logger) ==
  IF LoggerKind(logger) = "noInfo" THEN {"skipped"}
  ELSE IF LoggerKind(logger) = "throws" THEN {"logged", "threw"}
  ELSE {"logged"}

\* The places of a segment where a log call can end it by throwing, "none"
\* when none does.  `points` are the places of the segment's log calls.
ThrowPoints(logger, points) ==
  IF "threw" \in logSafely(logger) THEN points \cup {"none"} ELSE {"none"}

\* The loggers whose method has been called once `logger` was logged with.
Logged(logged, logger) ==
  IF "logged" \in logSafely(logger) THEN logged \cup {logger} ELSE logged

(***************************************************************************)
(* The facade (MSSQLDataSource) and the calls made on it.                  *)
(***************************************************************************)
\* An MSSQLConfig: a connection string (text) or a config object.
Config(text) == [string |-> TRUE, text |-> text, server |-> "", database |-> ""]

defaultOptions ==
  [config |-> [string |-> FALSE, text |-> "", server |-> "", database |-> ""],
   logger |-> DevConsoleLogger]

\* new MSSQLDataSource({config: 'cs-read', logger: appLogger}, {config: 'cs-write'})
AppFacade ==
  [queryOptions |-> [config |-> Config("cs-read"), logger |-> "appLogger"],
   mutationOptions |-> [config |-> Config("cs-write"), logger |-> "undefined"]]

\* new MSSQLDataSource({config: 'cs-read', logger: bareLogger},
\*                     {config: 'cs-read', logger: failingLogger})
OpsFacade ==
  [queryOptions |-> [config |-> Config("cs-read"), logger |-> "bareLogger"],
   mutationOptions |-> [config |-> Config("cs-read"), logger |-> "failingLogger"]]

Facade(facade) == IF facade = "app" THEN AppFacade ELSE OpsFacade

OptionsOf(facade, kind) ==
  IF kind = "query" THEN Facade(facade).queryOptions ELSE Facade(facade).mutationOptions

\* this._queryLogger and this._mutationLogger, as the constructor sets them.
queryLogger(facade) ==
  IF Facade(facade).queryOptions.logger # "undefined"
    THEN Facade(facade).queryOptions.logger
    ELSE defaultOptions.logger

mutationLogger(facade) ==
  IF Facade(facade).mutationOptions.logger # "undefined"
    THEN Facade(facade).mutationOptions.logger
    ELSE defaultOptions.logger

LoggerOf(facade, kind) ==
  IF kind = "query" THEN queryLogger(facade) ELSE mutationLogger(facade)

\* A faulty variant of ConnectionPoolGetter: every operation reads the query
\* pool.
QueryPoolAlways(kind) == "query"

\* A faulty variant of ConnectionPoolGetter: every operation reads the
\* mutation pool.
MutationPoolAlways(kind) == "mutation"

\* The pool getter the executor reads for an operation of kind `kind`:
\* executeQueryRequest reads queryConnectionPool, executeMutationRequest
\* reads mutationConnectionPool.

ConnectionPoolGetter(kind) == IF kind = "mutation" THEN "mutation" ELSE "query"

Call(facade, kind, name, input) ==
  [facade |-> facade, kind |-> kind, name |-> name, input |-> input]

kPage == <<"p","a","g","e">>
kPageSize == <<"p","a","g","e","S","i","z","e">>

\* The calls of a behaviour are drawn from one of these lists.
Workloads == <<
  << Call("app", "query", "dbo.GetPeople",
          << [k |-> kPage, v |-> JsNumber(1)], [k |-> kPageSize, v |-> JsNumber(10)] >>),
     Call("app", "query", "dbo.GetPeople", << [k |-> kPage, v |-> JsNumber(1)] >>),
     Call("app", "query", "dbo.GetPeople",
          << [k |-> <<"P","A","G","E">>, v |-> JsNumber(1)],
             [k |-> <<"p","a","g","e","s","i","z","e">>, v |-> JsNumber(10)],
             [k |-> <<"r","e","c","o","r","d","C","o","u","n","t">>, v |-> JsNumber(0)] >>) >>,
  << Call("app", "mutation", "dbo.SavePerson",
          << [k |-> <<"N","A","M","E">>, v |-> JsString(<<"x">>)],
             [k |-> <<"i","d">>, v |-> JsNumber(0)],
             [k |-> <<"e","x","t","r","a">>, v |-> JsNumber(1)] >>),
     Call("ops", "query", "dbo.SavePerson", <<>>),
     Call("ops", "mutation", "dbo.SavePerson",
          << [k |-> <<"n","a","m","e">>, v |-> JsString(<<"y">>)],
             [k |-> <<"I","d">>, v |-> JsNull] >>) >>,
  << Call("app", "query", "dbo.Audit",
          << [k |-> <<"a">>, v |-> JsNumber(1)], [k |-> <<"b">>, v |-> JsNumber(2)] >>),
     Call("app", "mutation", "dbo.SavePerson",
          << [k |-> <<"n","a","m","e">>, v |-> JsString(<<"z">>)],
             [k |-> <<"i","d">>, v |-> JsNumber(0)] >>),
     Call("app", "query", "dbo.Legacy", << [k |-> <<"x">>, v |-> JsNumber(1)] >>) >> >>

(***************************************************************************)
(* Cache Helper, Connection Manager, Stored-Procedure Cache Manager.       *)
(*                                                                         *)
(* A cache is a JavaScript Map from the hashed key to the identity of the  *)
(* cached object: the index of a pool in `pools`, of a schema in           *)
(* `schemas`.  0 stands for undefined.                                     *)
(*                                                                         *)
(* The stores are InMemoryLRUCaches with a TTL and no automatic purge: an  *)
(* entry whose TTL has run out stays until a get finds it stale, drops it  *)
(* and returns undefined.  A read is therefore a set of outcomes           *)
(* [value, entries, dropped]: what get returns, what the store holds       *)
(* afterwards, and whether the read dropped the entry.                     *)
(***************************************************************************)
isConfigString(config) == config.string

\* JSON.stringify(config) of a config object.
JsonStringify(config) == <<"{", config.server, config.database, "}">>

keyToHash(config) == IF isConfigString(config) THEN <<config.text>> ELSE JsonStringify(config)

\* A faulty variant of hashKey: every key has the same digest.
CollidingHash(key) == <<"sha1">>

\* SHA-1 is modelled as free of collisions.

hashKey(key) == <<"sha1", key>>

NotRead(entries) == [value |-> 0, entries |-> entries, dropped |-> FALSE]

RemoveAt(s, i) == SubSeq(s, 1, i - 1) \o SubSeq(s, i + 1, Len(s))

\* `stale` says whether the entries' TTL may have run out.
LruGet(entries, key, stale) ==
  IF ~HasKey(entries, key) THEN {NotRead(entries)}
  ELSE {[value |-> Get(entries, key), entries |-> entries, dropped |-> FALSE]}
       \cup IF stale
              THEN {[value |-> 0, entries |-> RemoveAt(entries, IndexOfKey(entries, key)),
                     dropped |-> TRUE]}
              ELSE {}

\* A faulty variant of tryGetFromCache: it never finds an entry.
AlwaysUndefined(cache, key, stale) == {NotRead(cache)}

\* CacheHelper.tryGetFromCache(key)
tryGetFromCache(cache, key, stale) == LruGet(cache, hashKey(key), stale)

\* A faulty variant of addToCache: it keeps what the key already holds.
KeepFirst(cache, key, obj) ==
  IF HasKey(cache, hashKey(key)) THEN cache ELSE Put(cache, hashKey(key), obj)

\* CacheHelper.addToCache(key, obj)
addToCache(cache, key, obj) == Put(cache, hashKey(key), obj)

\* A faulty variant of StoredProcedureCacheManager.tryGetFromCache: every
\* lookup misses.
NeverCached(globalCache, storedProcedureName, stale) == {NotRead(globalCache)}

\* StoredProcedureCacheManager.tryGetFromCache and .addToCache
StoredProcedureCacheManager_tryGetFromCache(globalCache, storedProcedureName, stale) ==
  tryGetFromCache(globalCache, storedProcedureName, stale)

StoredProcedureCacheManager_addToCache(globalCache, storedProcedureName, result) ==
  addToCache(globalCache, storedProcedureName, result)

PoolCacheKinds == {"query", "mutation"}
ConfigKeys == {keyToHash(OptionsOf(f, kind).config) : f \in {"app", "ops"}, kind \in PoolCacheKinds}

(***************************************************************************)
(* The state.                                                              *)
(*                                                                         *)
(*   workload            which list of Workloads the calls are drawn from  *)
(*   inv                 the invocations of the facade                     *)
(*   queryPoolCache      ConnectionManager._globalQueryPoolCache           *)
(*   mutationPoolCache   ConnectionManager._globalMutationPoolCache        *)
(*   schemaCache         StoredProcedureCacheManager._globalCache          *)
(*   pools               the ConnectionPool objects constructed            *)
(*   schemas             the IResult objects introspection returned        *)
(*   lastIndex           parameterDefinitionRegex.lastIndex                *)
(*   expiries            how many entries the stores have dropped          *)
(*   poolHist            per pool cache and key: what its accesses did     *)
(*   schemaHist          per procedure name: what its invocations did      *)
(*   probe               the last direct call of a function of the library *)
(*                       (UnitSpec): which, its arguments, what it gave    *)
(***************************************************************************)
VARIABLES workload, inv, queryPoolCache, mutationPoolCache, schemaCache,
          pools, schemas, lastIndex, expiries, poolHist, schemaHist, probe

vars == << workload, inv, queryPoolCache, mutationPoolCache, schemaCache,
           pools, schemas, lastIndex, expiries, poolHist, schemaHist, probe >>

\* No call is being made; `prev` is the stateful call made just before.
NoProbe == [fn |-> "none", prev |-> [fn |-> "none"]]

Invocations == 1..MaxInv

NoCall == Call("none", "none", "none", <<>>)

Pending == [status |-> "pending", envelope |-> <<>>, error |-> NoError, failedAt |-> "none"]

\*   pc        the await the invocation is suspended at
\*   nested    inside the executeQueryRequest of getStoredProcedureParameterSchema
\*   cache     the pool cache its current getConnectionPool reads
\*   pool      the pool its current executeRequest holds
\*   request   the Request handed to executeStoredProcedure
\*   schema    the schema executeStoredProcedure holds
\*   hit       whether its schema cache lookup hit
\*   stages    the stages it has begun, in order
\*   queries   the introspection queries it has issued
\*   executed  whether it has called request.execute
\*   logged    the loggers it has called
\*   wrote     the caches it has written
\*   answer    the answer to its introspection query
\*   calls     its executeRequest calls, in order (see NewExecuteRequest)
IdleInvocation ==
  [pc |-> "idle", call |-> NoCall, logger |-> "none", nested |-> FALSE, answer |-> NoAnswer,
   cache |-> "none", pool |-> 0, request |-> NewRequest(0), schema |-> 0,
   hit |-> "unknown", outcome |-> Pending, stages |-> <<>>, queries |-> 0,
   executed |-> FALSE, logged |-> {}, wrote |-> {}, calls |-> <<>>]

NoPoolHist ==
  [accesses |-> 0, constructed |-> 0, returned |-> {}, race |-> FALSE, dropped |-> FALSE]

NoSchemaHist ==
  [queries |-> 0, failed |-> FALSE, overlap |-> FALSE, dropped |-> FALSE, writers |-> <<>>]

Init ==
  /\ workload \in DOMAIN Workloads
  /\ inv = [p \in Invocations |-> IdleInvocation]
  /\ queryPoolCache = <<>>
  /\ mutationPoolCache = <<>>
  /\ schemaCache = <<>>
  /\ pools = <<>>
  /\ schemas = <<>>
  /\ lastIndex = 0
  /\ expiries = 0
  /\ poolHist = [c \in PoolCacheKinds \X ConfigKeys |-> NoPoolHist]
  /\ schemaHist = [n \in ProcedureNames |-> NoSchemaHist]
  /\ probe = NoProbe

PoolCache(cache) == IF cache = "query" THEN queryPoolCache ELSE mutationPoolCache

\* Whether an entry's TTL may have run out.
Stale == expiries < MaxExpire

\* The key of the pool access invocation r is making.
PoolKey(r) == keyToHash(OptionsOf(r.call.facade, r.cache).config)

\* Invocation q is inside getConnectionPool(config, cache) for this key, or
\* has not yet been handed the pool it resolved with.
InFlight(q, cache, key) ==
  /\ inv[q].pc \in {"getConnectionPool", "executeRequest"}
  /\ inv[q].cache = cache
  /\ PoolKey(inv[q]) = key

\* Invocation r is inside executeStoredProcedure.
InsideExecuteStoredProcedure(r) ==
  \/ r.pc \in {"resolveSchema", "query", "addToCache", "parse", "execute"}
  \/ r.nested /\ r.pc \in {"getConnectionPool", "executeRequest", "connect"}

IsWriter(hist, p) == \E i \in DOMAIN hist.writers : hist.writers[i] = p

Reject(r, error, failedAt) ==
  [r EXCEPT !.pc = "done",
            !.outcome = [status |-> "error", envelope |-> <<>>, error |-> error,
                         failedAt |-> failedAt]]

LoggerThrew == Error("Logger threw")

\* Invocation p becomes r2; hist is schemaHist as the step has made it.  An
\* invocation that missed the schema cache and ends before it has written it
\* has failed to introspect.
Step(p, r2, hist) ==
  \E r \in {r2} :
    /\ inv' = [inv EXCEPT ![p] = r]
    /\ schemaHist' =
         IF /\ r.pc = "done"
            /\ r.outcome.status = "error"
            /\ r.hit = "miss"
            /\ ~IsWriter(hist[r.call.name], p)
           THEN [hist EXCEPT ![r.call.name].failed = TRUE]
           ELSE hist

\* The pool caches, expiries and poolHist after invocation p has read `cache`
\* under `key` with the outcome `got` (`read` is whether p came to read).
PoolRead(p, cache, key, got, read) ==
  /\ queryPoolCache' = IF cache = "query" THEN got.entries ELSE queryPoolCache
  /\ mutationPoolCache' = IF cache = "mutation" THEN got.entries ELSE mutationPoolCache
  /\ expiries' = IF got.dropped THEN expiries + 1 ELSE expiries
  /\ poolHist' =
       IF read
         THEN [poolHist EXCEPT ![<<cache, key>>] =
                [@ EXCEPT !.accesses = @ + 1,
                          !.race = @ \/ \E q \in Invocations \ {p} : InFlight(q, cache, key),
                          !.dropped = @ \/ got.dropped,
                          !.returned = IF got.value = 0 THEN @ ELSE @ \cup {got.value}]]
         ELSE poolHist

\* An executeRequest call that has just been made with the pool promise of
\* `cache`, by getStoredProcedureParameterSchema (nested) or by the facade.
\*   pool         the pool the promise resolved with, 0 before
\*   flag         what `resolvedConnectionPool.connected` was when tested
\*   connect      "none", "called", "ok" or "failed": its connect() call
\*   fn           how many times it has invoked requestFn
\*   fnConnected  whether the pool was connected when it invoked requestFn
\*   fnPool       the pool of the Request it constructed for requestFn
\*   used         what has been called on that Request: "query", "execute"
NewExecuteRequest(cache, nested) ==
  [cache |-> cache, nested |-> nested, pool |-> 0, flag |-> "unread", connect |-> "none",
   fn |-> 0, fnConnected |-> FALSE, fnPool |-> 0, used |-> {}]

\* The executeRequest call invocation r is in.
LastCall(r) == r.calls[Len(r.calls)]

WithCall(r, call) == [r EXCEPT !.calls[Len(r.calls)] = call]

\* executeQueryRequest / executeMutationRequest up to the first await of
\* executeRequest: the getter of `cache` runs getConnectionPool(config,
\* cacheHelper) up to its first await for invocation r (connectionPool is
\* what tryGetFromCache has returned), and executeRequest awaits the promise.
getConnectionPool(r, cache, connectionPool) ==
  [r EXCEPT !.cache = cache, !.pool = connectionPool,
            !.calls = Append(@, NewExecuteRequest(cache, r.nested)),
            !.pc = IF connectionPool = 0 THEN "getConnectionPool" ELSE "executeRequest"]

(***************************************************************************)
(* executeStoredProcedureQuery / executeStoredProcedureMutation up to the  *)
(* first await: logExecutionBegin, then executeQueryRequest or             *)
(* executeMutationRequest, whose getter runs getConnectionPool up to its   *)
(* cache read.                                                             *)
(***************************************************************************)
Start(p) ==
  /\ inv[p].pc = "idle"
  /\ \A q \in Invocations : q < p => inv[q].pc # "idle"
  /\ \E c \in DOMAIN Workloads[workload] :
       LET call == Workloads[workload][c]
           logger == LoggerOf(call.facade, call.kind)
           cache == ConnectionPoolGetter(call.kind)
           key == keyToHash(OptionsOf(call.facade, cache).config)
           r == [inv[p] EXCEPT !.call = call, !.logger = logger,
                               !.logged = Logged(@, logger)]
       IN \E t \in ThrowPoints(logger, {"logExecutionBegin"}) :
          \E got \in IF t = "none" THEN tryGetFromCache(PoolCache(cache), key, Stale)
                     ELSE {NotRead(PoolCache(cache))} :
            /\ Step(p, IF t = "none" THEN getConnectionPool(r, cache, got.value)
                       ELSE Reject(r, LoggerThrew, "log"), schemaHist)
            /\ PoolRead(p, cache, key, got, t = "none")
  /\ UNCHANGED << workload, probe, schemaCache, pools, schemas, lastIndex >>

(***************************************************************************)
(* getConnectionPool after a miss: createConnectionPool and addToCache.    *)
(***************************************************************************)
createConnectionPool(config, cache, p) ==
  [config |-> config, cache |-> cache, connected |-> FALSE, by |-> p]

GetConnectionPool(p) ==
  LET r == inv[p]
      config == OptionsOf(r.call.facade, r.cache).config
      connectionPool == Len(pools) + 1
      cached == addToCache(PoolCache(r.cache), keyToHash(config), connectionPool)
  IN /\ r.pc = "getConnectionPool"
     /\ pools' = Append(pools, createConnectionPool(config, r.cache, p))
     /\ queryPoolCache' = IF r.cache = "query" THEN cached ELSE queryPoolCache
     /\ mutationPoolCache' = IF r.cache = "query" THEN mutationPoolCache ELSE cached
     /\ poolHist' = [poolHist EXCEPT ![<<r.cache, PoolKey(r)>>] =
                      [@ EXCEPT !.constructed = @ + 1,
                                !.returned = @ \cup {connectionPool}]]
     /\ Step(p, [r EXCEPT !.pool = connectionPool, !.pc = "executeRequest",
                          !.wrote = @ \cup {r.cache}], schemaHist)
     /\ UNCHANGED << workload, probe, schemaCache, schemas, lastIndex, expiries >>

(***************************************************************************)
(* requestFn(new Request(resolvedConnectionPool)) up to its first await.   *)
(* Of the facade it is executeStoredProcedure, which reads the schema      *)
(* cache (`got` is what the read returned); of                             *)
(* getStoredProcedureParameterSchema it issues the introspection query.    *)
(* `connected` is the pool's flag at that moment.  The result is the       *)
(* invocation and schemaHist after it.                                     *)
(***************************************************************************)
requestFn(p, r0, got, connected) ==
  LET name == r0.call.name
      r == WithCall(r0, [LastCall(r0) EXCEPT !.fn = @ + 1, !.fnConnected = connected,
                                            !.fnPool = r0.pool])
  IN
  IF r.nested
    THEN [r |-> [WithCall(r, [LastCall(r) EXCEPT !.used = @ \cup {"query"}])
                   EXCEPT !.queries = @ + 1, !.pc = "query"],
          hist |-> [schemaHist EXCEPT ![name].queries = @ + 1]]
    ELSE [r |-> [r EXCEPT !.request = NewRequest(r.pool), !.schema = got.value,
                          !.hit = IF got.value = 0 THEN "miss" ELSE "hit",
                          !.pc = "resolveSchema"],
          hist |-> [schemaHist EXCEPT ![name] =
                     [@ EXCEPT !.dropped = @ \/ got.dropped,
                               !.overlap = @ \/ \E q \in Invocations \ {p} :
                                                  /\ InsideExecuteStoredProcedure(inv[q])
                                                  /\ inv[q].call.name = name]]]

\* The outcomes of the schema cache read of requestFn; `reached` is whether
\* the segment comes to call requestFn.
SchemaReads(r, reached) ==
  IF reached /\ ~r.nested
    THEN StoredProcedureCacheManager_tryGetFromCache(schemaCache, r.call.name, Stale)
    ELSE {NotRead(schemaCache)}

\* The stage a failure of executeRequest belongs to.
RequestStage(r) == IF r.nested THEN "schema resolution" ELSE "acquire"

(***************************************************************************)
(* executeRequest after `await connectionPool`: logPerformance, then       *)
(* connect() when the pool is not connected, else logPerformance and       *)
(* requestFn.                                                              *)
(***************************************************************************)
ExecuteRequest(p) ==
  LET resolved == [inv[p] EXCEPT !.logged = Logged(@, inv[p].logger)]
      r == WithCall(resolved, [LastCall(resolved) EXCEPT !.pool = resolved.pool])
      connected == pools[r.pool].connected
      tested == WithCall(r, [LastCall(r) EXCEPT
                               !.flag = IF connected THEN "true" ELSE "false",
                               !.connect = IF connected THEN "none" ELSE "called"])
  IN /\ inv[p].pc = "executeRequest"
     /\ \E t \in ThrowPoints(r.logger,
                   IF connected THEN {"getQueryConnectionPool", "connect"}
                   ELSE {"getQueryConnectionPool"}) :
        \E got \in SchemaReads(r, t = "none" /\ connected) :
          /\ IF t = "getQueryConnectionPool"
               THEN Step(p, Reject(r, LoggerThrew, "log"), schemaHist)
             ELSE IF ~connected THEN Step(p, [tested EXCEPT !.pc = "connect"], schemaHist)
             ELSE IF t = "connect" THEN Step(p, Reject(tested, LoggerThrew, "log"), schemaHist)
             ELSE \E f \in {requestFn(p, tested, got, connected)} : Step(p, f.r, f.hist)
          /\ schemaCache' = got.entries
          /\ expiries' = IF got.dropped THEN expiries + 1 ELSE expiries
     /\ UNCHANGED << workload, probe, queryPoolCache, mutationPoolCache, pools, schemas,
                     lastIndex, poolHist >>

(***************************************************************************)
(* executeRequest after `await resolvedConnectionPool.connect()`: the      *)
(* driver connects the pool or rejects; then logPerformance and requestFn. *)
(***************************************************************************)
Connect(p) ==
  LET r == inv[p]
      failed == WithCall(r, [LastCall(r) EXCEPT !.connect = "failed"])
      logged == [WithCall(r, [LastCall(r) EXCEPT !.connect = "ok"])
                   EXCEPT !.logged = Logged(@, r.logger)]
  IN /\ r.pc = "connect"
     /\ \E ok \in BOOLEAN : \E t \in ThrowPoints(r.logger, {"connect"}) :
        \E got \in SchemaReads(r, ok /\ t = "none") :
          /\ IF ~ok THEN Step(p, Reject(failed, Error("ConnectionError"), RequestStage(r)),
                              schemaHist)
             ELSE IF t # "none" THEN Step(p, Reject(logged, LoggerThrew, "log"), schemaHist)
             ELSE \E f \in {requestFn(p, logged, got, ok)} : Step(p, f.r, f.hist)
          /\ pools' = IF ok THEN [pools EXCEPT ![r.pool].connected = TRUE] ELSE pools
          /\ schemaCache' = got.entries
          /\ expiries' = IF got.dropped THEN expiries + 1 ELSE expiries
     /\ UNCHANGED << workload, probe, queryPoolCache, mutationPoolCache, schemas, lastIndex,
                     poolHist >>


(***************************************************************************)
(* executeStoredProcedure from the parse on, up to                         *)
(* `await preparedRequest.execute(name)`: the logs, the parse (which       *)
(* writes the default values into the rows of the schema object, and moves *)
(* lastIndex), prepareStoredProcedureRequest, logExecutionBegin, execute.  *)
(***************************************************************************)
ParseAndExecute(p, r0) ==
  LET r == [r0 EXCEPT !.logged = Logged(@, r0.logger),
                      !.stages = <<"schema resolution", "parse">>]
  IN \E t \in ThrowPoints(r.logger, {"beforeParse", "afterParse", "afterPrepare"}) :
       IF t = "beforeParse"
         THEN /\ Step(p, Reject([r EXCEPT !.stages = <<"schema resolution">>],
                                LoggerThrew, "log"), schemaHist)
              /\ UNCHANGED << schemas, lastIndex >>
         ELSE \E parsed \in {parseStoredProcedureParameters(schemas[r.schema], lastIndex)} :
              /\ schemas' = [schemas EXCEPT ![r.schema].rows = parsed.rows]
              /\ lastIndex' = parsed.lastIndex
              /\ IF ~parsed.ok
                   THEN Step(p, Reject(r, Error(parsed.error), "parse"), schemaHist)
                 ELSE IF t = "afterParse"
                   THEN Step(p, Reject(r, LoggerThrew, "log"), schemaHist)
                 ELSE \E prepared \in {prepareStoredProcedureRequest(parsed.parameters,
                                                                      r.call.input, r.request)} :
                   LET r2 == [r EXCEPT !.stages = <<"schema resolution", "parse">>
                                                    \o prepared.stages]
                   IN IF ~prepared.ok
                        THEN Step(p, Reject(r2, prepared.error,
                                            prepared.stages[Len(prepared.stages)]), schemaHist)
                      ELSE IF t = "afterPrepare"
                        THEN Step(p, Reject(r2, LoggerThrew, "log"), schemaHist)
                      ELSE Step(p, [r2 EXCEPT !.request = prepared.request,
                                              !.stages = @ \o <<"execute">>,
                                              !.calls[1].used = @ \cup {"execute"},
                                              !.executed = TRUE, !.pc = "execute"],
                                schemaHist)

(***************************************************************************)
(* executeStoredProcedure after `await tryGetFromCache(name)`.  On a miss: *)
(* the log, then getStoredProcedureParameterSchema, whose                  *)
(* executeQueryRequest reads the query pool cache.  On a hit: the log and  *)
(* everything up to execute.                                               *)
(***************************************************************************)
ResolveSchema(p) ==
  LET r == [inv[p] EXCEPT !.logged = Logged(@, inv[p].logger),
                          !.stages = <<"schema resolution">>, !.nested = TRUE]
      cache == ConnectionPoolGetter("query")
      key == keyToHash(OptionsOf(r.call.facade, cache).config)
  IN /\ r.pc = "resolveSchema"
     /\ IF r.schema # 0
          THEN /\ ParseAndExecute(p, inv[p])
               /\ UNCHANGED << queryPoolCache, mutationPoolCache, expiries, poolHist >>
          ELSE /\ \E t \in ThrowPoints(r.logger, {"miss"}) :
                  \E got \in IF t = "none" THEN tryGetFromCache(PoolCache(cache), key, Stale)
                             ELSE {NotRead(PoolCache(cache))} :
                    /\ Step(p, IF t = "none" THEN getConnectionPool(r, cache, got.value)
                               ELSE Reject([r EXCEPT !.nested = FALSE], LoggerThrew, "log"),
                            schemaHist)
                    /\ PoolRead(p, cache, key, got, t = "none")
               /\ UNCHANGED << schemas, lastIndex >>
     /\ UNCHANGED << workload, probe, schemaCache, pools >>

(***************************************************************************)
(* getStoredProcedureParameterSchema after `await request.query(...)`: the *)
(* driver rejects or answers, and the answer's shape is checked.           *)
(***************************************************************************)
QueryResult(p) ==
  LET name == inv[p].call.name
      result == [name |-> name, by |-> p, rows |-> Catalog(name).rows,
                 definition |-> Catalog(name).definition]
  IN /\ inv[p].pc = "query"
     /\ \E answer \in IntrospectionAnswers :
          LET r == [inv[p] EXCEPT !.answer = answer] IN
          IF answer.error
            THEN /\ Step(p, Reject(r, Error("RequestError"), "schema resolution"), schemaHist)
                 /\ UNCHANGED schemas
          ELSE IF CheckRecordsets(answer) # "none"
            THEN /\ Step(p, Reject(r, Error(CheckRecordsets(answer)), "schema resolution"),
                         schemaHist)
                 /\ UNCHANGED schemas
          ELSE /\ schemas' = Append(schemas, result)
               /\ Step(p, [r EXCEPT !.schema = Len(schemas) + 1, !.nested = FALSE,
                                    !.pc = "addToCache"], schemaHist)
     /\ UNCHANGED << workload, probe, queryPoolCache, mutationPoolCache, schemaCache,
                     pools, lastIndex, expiries, poolHist >>

(***************************************************************************)
(* executeStoredProcedure after                                            *)
(* `await getStoredProcedureParameterSchema(...)`: addToCache(name, schema)*)
(***************************************************************************)
AddToCache(p) ==
  LET r == inv[p]
      name == r.call.name
  IN /\ r.pc = "addToCache"
     /\ schemaCache' = StoredProcedureCacheManager_addToCache(schemaCache, name, r.schema)
     /\ Step(p, [r EXCEPT !.wrote = @ \cup {"schema"}, !.pc = "parse"],
             [schemaHist EXCEPT ![name].writers = Append(@, p)])
     /\ UNCHANGED << workload, probe, queryPoolCache, mutationPoolCache, pools, schemas,
                     lastIndex, expiries, poolHist >>

(***************************************************************************)
(* executeStoredProcedure after `await addToCache(...)`.                   *)
(***************************************************************************)
Parse(p) ==
  /\ inv[p].pc = "parse"
  /\ ParseAndExecute(p, inv[p])
  /\ UNCHANGED << workload, probe, queryPoolCache, mutationPoolCache, schemaCache,
                  pools, expiries, poolHist >>

(***************************************************************************)
(* executeStoredProcedure after `await preparedRequest.execute(name)`: the *)
(* driver rejects or answers; prepareStoredProcedureResult, the log, and   *)
(* in the facade logExecutionEnd (and, of a query, logSafely).             *)
(***************************************************************************)
Execute(p) ==
  LET r == inv[p]
      result == ProcedureResult(r.call.name, r.request)
      preparedResult == prepareStoredProcedureResult(result, <<>>, <<>>)
      r2 == [r EXCEPT !.stages = @ \o <<"normalize">>, !.logged = Logged(@, r.logger)]
  IN /\ r.pc = "execute"
     /\ \E ok \in BOOLEAN : \E t \in ThrowPoints(r.logger, {"afterNormalize"}) :
          IF ~ok THEN Step(p, Reject(r, Error("RequestError"), "execute"), schemaHist)
          ELSE IF t # "none" THEN Step(p, Reject(r2, LoggerThrew, "log"), schemaHist)
          ELSE Step(p, [r2 EXCEPT !.pc = "done",
                                  !.outcome = [status |-> "envelope",
                                               envelope |-> preparedResult,
                                               error |-> NoError, failedAt |-> "none"]],
                    schemaHist)
     /\ UNCHANGED << workload, probe, queryPoolCache, mutationPoolCache, schemaCache,
                     pools, schemas, lastIndex, expiries, poolHist >>

Next ==
  \/ \E p \in Invocations : Start(p)
  \/ \E p \in Invocations : GetConnectionPool(p)
  \/ \E p \in Invocations : ExecuteRequest(p)
  \/ \E p \in Invocations : Connect(p)
  \/ \E p \in Invocations : ResolveSchema(p)
  \/ \E p \in Invocations : QueryResult(p)
  \/ \E p \in Invocations : AddToCache(p)
  \/ \E p \in Invocations : Parse(p)
  \/ \E p \in Invocations : Execute(p)

Spec == Init /\ [][Next]_vars

(***************************************************************************)
(* The functions of the library called directly, one call per step, in any *)
(* order: the specification UnitSpec.  The facade is not used: its state   *)
(* stays as constructed.  What the calls share is what the code shares:    *)
(* the schema objects (written in place by the parse) and the lastIndex of *)
(* the static pattern.                                                     *)
(***************************************************************************)
\* The schema objects the calls are made with.
SchemaObject(name) ==
  [name |-> name, by |-> 0, rows |-> Catalog(name).rows,
   definition |-> Catalog(name).definition]

UnitSchemas ==
  << SchemaObject("dbo.GetPeople"), SchemaObject("dbo.SavePerson"),
     SchemaObject("dbo.Audit"), SchemaObject("dbo.Legacy") >>

UnitInit ==
  /\ workload = 1
  /\ inv = [p \in Invocations |-> IdleInvocation]
  /\ queryPoolCache = <<>>
  /\ mutationPoolCache = <<>>
  /\ schemaCache = <<>>
  /\ pools = <<>>
  /\ schemas = UnitSchemas
  /\ lastIndex = 0
  /\ expiries = 0
  /\ poolHist = [c \in PoolCacheKinds \X ConfigKeys |-> NoPoolHist]
  /\ schemaHist = [n \in ProcedureNames |-> NoSchemaHist]
  /\ probe = NoProbe

\* What a direct call leaves alone.
FacadeUnchanged ==
  UNCHANGED << workload, inv, queryPoolCache, mutationPoolCache, schemaCache,
               pools, expiries, poolHist, schemaHist >>

\* The type names, lengths, precisions and scales mapDbTypeToDriverType is
\* called with.
UnitTypeNames ==
  { <<"i","n","t">>, <<"I","N","T">>, <<"b","i","t">>, <<"n","v","a","r","c","h","a","r">>, <<"V","A","R","C","H","A","R">>, <<"d","e","c","i","m","a","l">>, <<"D","e","c","i","m","a","l">>,
    <<"d","a","t","e","t","i","m","e">>, <<"d","a","t","e","t","i","m","e","2">>, <<"t","v","p">>, <<"T","V","P">>, <<"s","q","l","_","v","a","r","i","a","n","t">>, <<"t","a","b","l","e"," ","t","y","p","e">>, <<>> }

UnitNumbers == {NoNumber, 2, 10}

\* mapDbTypeToDriverType({type, length, precision, scale})
CallMapDbTypeToDriverType ==
  /\ probe = NoProbe
  /\ \E type \in UnitTypeNames : \E length, precision, scale \in UnitNumbers :
       probe' = [fn |-> "mapDbTypeToDriverType",
                 args |-> [type |-> type, length |-> length,
                           precision |-> precision, scale |-> scale],
                 out |-> mapDbTypeToDriverType(type, length, precision, scale),
                 prev |-> NoProbe.prev]
  /\ UNCHANGED << schemas, lastIndex >>
  /\ FacadeUnchanged

\* The literals and type texts convertSqlValueToJsValue is called with.
UnitLiterals == { <<"N","U","L","L">>, <<"n","u","l","l">>, <<"3","0">>, <<>>, <<"a","b","c">> }

UnitSqlTypes ==
  { <<"I","N","T">>, <<"N","V","A","R","C","H","A","R","(","5","0",")">>, <<"B","I","T">>, <<"d","a","t","e","t","i","m","e">>, <<"v","a","r","b","i","n","a","r","y">>, <<"t","i","m","e","s","t","a","m","p">>,
    <<"r","o","w","v","e","r","s","i","o","n">>, <<"g","e","o","g","r","a","p","h","y">>, <<"x","m","l">>, <<"t","v","p">>, <<"T","V","P","_","L","i","s","t">>, <<"u","d","t">>, <<"U","d","t","_","P","o","i","n","t">>,
    <<"S","Q","L","_","V","A","R","I","A","N","T">>, <<"t","a","b","l","e"," ","t","y","p","e">>,
    <<"t","i","m","e">>, <<"i","m","a","g","e">>, <<"m","o","n","e","y">>,
    <<"D","a","t","e","T","i","m","e","2","(","7",")">> }

\* convertSqlValueToJsValue(value, sqlType)
CallConvertSqlValueToJsValue ==
  /\ probe = NoProbe
  /\ \E value \in UnitLiterals : \E sqlType \in UnitSqlTypes :
       probe' = [fn |-> "convertSqlValueToJsValue",
                 args |-> [value |-> value, sqlType |-> sqlType],
                 out |-> convertSqlValueToJsValue(value, sqlType),
                 prev |-> NoProbe.prev]
  /\ UNCHANGED << schemas, lastIndex >>
  /\ FacadeUnchanged

\* The rows prepareStoredProcedureRequest is called with are drawn from
\* these: IN without and with a default, INOUT, OUT with a default, and a
\* mode the driver-type enum does not have.
UnitRows ==
  << CatalogRow(<<"@","p","a","g","e","S","i","z","e">>, tInt, "IN", NoNumber),
     [CatalogRow(<<"@","S","o","r","t">>, tNVarChar, "IN", 10) EXCEPT !.defaultValue = JsString(<<"x">>)],
     CatalogRow(<<"@","T","o","t","a","l">>, tInt, "INOUT", NoNumber),
     [CatalogRow(<<"@","O","l","d">>, tInt, "OUT", NoNumber) EXCEPT !.defaultValue = JsNumber(1)],
     CatalogRow(<<"@","O","d","d">>, tInt, "READONLY", NoNumber) >>

\* The rows of `rows` whose index is in `keep`, in order.
RECURSIVE RowsFrom(_, _, _)
RowsFrom(rows, keep, i) ==
  IF i > Len(rows) THEN <<>>
  ELSE (IF i \in keep THEN <<rows[i]>> ELSE <<>>) \o RowsFrom(rows, keep, i + 1)

\* An entry of an input object when `key` is a key, none when it is <<>>.
InputEntry(key, value) == IF key = <<>> THEN <<>> ELSE << [k |-> key, v |-> value] >>

PageSizeKeys == { <<>>, <<"P","a","g","e","S","i","z","e">>, <<"p","a","g","e","s","i","z","e">>, <<"P","A","G","E","S","I","Z","E">> }

\* prepareStoredProcedureRequest(storedProcedureParameters, input, request),
\* with what its prepareParameters returns.
CallPrepareStoredProcedureRequest ==
  /\ probe = NoProbe
  /\ \E keep \in SUBSET (DOMAIN UnitRows) :
     \E pageSize \in PageSizeKeys :
     \E sort \in {<<>>, <<"s","o","r","t">>} :
     \E total \in {<<>>, <<"T","O","T","A","L">>} : \E totalValue \in {JsNumber(0), JsUndefined} :
     \E old \in {<<>>, <<"o","l","d">>} :
     \E odd \in {<<>>, <<"O","d","d">>} :
     \E extra \in {<<>>, <<"f","i","l","t","e","r">>} :
       LET storedProcedureParameters == RowsFrom(UnitRows, keep, 1)
           input == InputEntry(extra, JsNumber(7)) \o InputEntry(pageSize, JsNumber(10))
                    \o InputEntry(sort, JsString(<<"y">>)) \o InputEntry(total, totalValue)
                    \o InputEntry(old, JsNumber(2)) \o InputEntry(odd, JsNull)
       IN probe' = [fn |-> "prepareStoredProcedureRequest",
                    args |-> [storedProcedureParameters |-> storedProcedureParameters,
                              input |-> input],
                    out |-> [parameters |-> prepareParameters(storedProcedureParameters, input),
                             result |-> prepareStoredProcedureRequest(
                                          storedProcedureParameters, input, NewRequest(0))],
                    prev |-> NoProbe.prev]
  /\ UNCHANGED << schemas, lastIndex >>
  /\ FacadeUnchanged

\* The results of the driver prepareStoredProcedureResult is called with, and
\* the name tables made from info.
Field(key, n) == [k |-> key, v |-> JsNumber(n)]

PeopleSet == << << Field(IdKey, 1), Field(FirstNameKey, 11) >>,
                << Field(IdKey, 2), Field(FirstNameKey, 12) >> >>

NamesSet == << << Field(<<"f","i","r","s","t","_","n","a","m","e">>, 5), Field(FirstNameKey, 6) >> >>

TeamsSet == << << Field(IdKey, 1), Field(<<"C","o","n","s","t","r","u","c","t","o","r">>, 3) >> >>

UnitRecordsets ==
  { <<>>, <<PeopleSet>>, <<PeopleSet, <<>>, NamesSet>>, <<NamesSet, PeopleSet>>, <<TeamsSet>> }

UnitOutputs ==
  { <<>>,
    << Field(<<"R","e","c","o","r","d","C","o","u","n","t">>, 10) >>,
    << Field(<<"R","e","t","u","r","n","V","a","l","u","e">>, 99) >>,
    << Field(<<"R","e","s","u","l","t","_","S","e","t","s">>, 1), Field(rowsAffectedKey, 2) >>,
    << Field(IdKey, 1), Field(<<"R","e","c","o","r","d","C","o","u","n","t">>, 10) >> }

UnitResultSetFields == { <<>>, << [k |-> <<"f","i","r","s","t","n","a","m","e">>, v |-> <<"F","I","R","S","T","N","a","m","e">>] >> }

UnitOutputFields == { <<>>, << [k |-> <<"r","e","c","o","r","d","c","o","u","n","t">>, v |-> <<"R","e","c","o","r","d","C","o","u","n","t">>] >> }

\* prepareStoredProcedureResult(result, info)
CallPrepareStoredProcedureResult ==
  /\ probe = NoProbe
  /\ \E recordsets \in UnitRecordsets : \E output \in UnitOutputs :
     \E returnValue \in {JsNumber(0), JsNumber(1)} :
     \E rowsAffected \in {<<>>, <<1>>, <<1, 2>>} :
     \E resultSetFields \in UnitResultSetFields : \E outputFields \in UnitOutputFields :
       LET result == [recordsets |-> recordsets, output |-> output,
                      returnValue |-> returnValue, rowsAffected |-> rowsAffected]
       IN probe' = [fn |-> "prepareStoredProcedureResult",
                    args |-> [result |-> result, resultSetFields |-> resultSetFields,
                              outputFields |-> outputFields],
                    out |-> prepareStoredProcedureResult(result, resultSetFields, outputFields),
                    prev |-> NoProbe.prev]
  /\ UNCHANGED << schemas, lastIndex >>
  /\ FacadeUnchanged

\* storedProcedureName.replace(/\[|\]/g, '')
RECURSIVE RemoveBrackets(_)
RemoveBrackets(s) ==
  IF Len(s) = 0 THEN <<>>
  ELSE IF Head(s) \in {"[", "]"} THEN RemoveBrackets(Tail(s))
  ELSE <<Head(s)>> \o RemoveBrackets(Tail(s))

\* String.prototype.split('.'): `part` is the part being read.
RECURSIVE SplitOnDot(_, _)
SplitOnDot(s, part) ==
  IF Len(s) = 0 THEN <<part>>
  ELSE IF Head(s) = "." THEN <<part>> \o SplitOnDot(Tail(s), <<>>)
  ELSE SplitOnDot(Tail(s), Append(part, Head(s)))

\* An element of an array that has none at the index.
UndefinedText == <<"u","n","d","e","f","i","n","e","d">>

\* The SPECIFIC_SCHEMA and SPECIFIC_NAME the introspection query of
\* getStoredProcedureParameterSchema filters by: schemaAndName[0] and
\* schemaAndName[1], as the template literal puts them into the text.
CatalogFilter(storedProcedureName) ==
  LET schemaAndName == SplitOnDot(RemoveBrackets(storedProcedureName), <<>>) IN
  [schema |-> schemaAndName[1],
   name |-> IF Len(schemaAndName) >= 2 THEN schemaAndName[2] ELSE UndefinedText]

\* The identifiers the filter is derived from: two-part and three-part,
\* unquoted and bracket-quoted.
UnitIdentifiers ==
  [database : {<<>>, <<"m","y">>}, schema : {<<"d","b","o">>}, name : {<<"P">>, <<"G","e","t">>},
   quoted : BOOLEAN]

\* The text of a part of an identifier.
Quote(part, quoted) == IF quoted THEN <<"[">> \o part \o <<"]">> ELSE part

\* The text of an identifier.
IdentifierText(id) ==
  (IF id.database = <<>> THEN <<>> ELSE Quote(id.database, id.quoted) \o <<".">>)
    \o Quote(id.schema, id.quoted) \o <<".">> \o Quote(id.name, id.quoted)

\* The catalog filter getStoredProcedureParameterSchema makes of an
\* identifier.
CallCatalogFilter ==
  /\ probe = NoProbe
  /\ \E id \in UnitIdentifiers :
       probe' = [fn |-> "catalogFilter",
                 args |-> [id |-> id, storedProcedureName |-> IdentifierText(id)],
                 out |-> CatalogFilter(IdentifierText(id)),
                 prev |-> NoProbe.prev]
  /\ UNCHANGED << schemas, lastIndex >>
  /\ FacadeUnchanged

\* The parameters a parameter section is written for: @A and @B, each of
\* the type INT or DECIMAL(10, 2) and with or without the default 1, and
\* with or without a declaration @X INT = 5 that the catalog does not have.
UnitDeclared ==
  [typeA : {"int", "decimal"}, defaultA : BOOLEAN,
   typeB : {"int", "decimal"}, defaultB : BOOLEAN, other : BOOLEAN]

\* DATA_TYPE of the catalog: the name of the type.
BaseTypeText(type) ==
  IF type = "int" THEN <<"I","N","T">> ELSE <<"D","E","C","I","M","A","L">>

TypeText(type) ==
  IF type = "int" THEN <<"I","N","T">>
  ELSE <<"D","E","C","I","M","A","L","(","1","0",","," ","2",")">>

DeclarationText(name, type, default) ==
  <<" ">> \o name \o <<" ">> \o TypeText(type)
    \o (IF default THEN <<" ","=", " ","1">> ELSE <<>>)

\* The text between the procedure name and AS.
SectionText(declared) ==
  DeclarationText(<<"@","A">>, declared.typeA, declared.defaultA) \o <<",">>
    \o DeclarationText(<<"@","B">>, declared.typeB, declared.defaultB)
    \o (IF declared.other THEN <<","," ","@","X"," ","I","N","T"," ","="," ","5">> ELSE <<>>)
    \o <<" ">>

\* The IResult introspection returns for the procedure.
SectionSchema(declared) ==
  [name |-> "dbo.P", by |-> 0,
   rows |-> << CatalogRow(<<"@","A">>, ToLowerCase(BaseTypeText(declared.typeA)), "IN", NoNumber),
               CatalogRow(<<"@","B">>, ToLowerCase(BaseTypeText(declared.typeB)), "IN", NoNumber) >>,
   definition |-> [commentStripped |-> "text", parameterSection |-> TRUE,
                   declarations |-> ExecAll(SectionText(declared), 1)]]

\* parseStoredProcedureParameters for a procedure whose parameter section
\* is the text of `declared`.
CallParseParameterSection ==
  /\ probe = NoProbe
  /\ \E declared \in UnitDeclared :
       \E parsed \in {parseStoredProcedureParameters(SectionSchema(declared), lastIndex)} :
         /\ probe' = [fn |-> "parseParameterSection",
                      args |-> [declared |-> declared, lastIndex |-> lastIndex],
                      out |-> [ok |-> parsed.ok, error |-> parsed.error,
                               parameters |-> parsed.parameters],
                      prev |-> NoProbe.prev]
         /\ lastIndex' = parsed.lastIndex
  /\ UNCHANGED schemas
  /\ FacadeUnchanged

\* The comments put around the parameter list: none, a line comment, a line
\* comment without text, a block comment, a block comment that holds an old
\* declaration, and block comments inside a block comment.
UnitComments ==
  { <<>>,
    <<"--", "space", "word", "space", "AS", "space", "word", "newline">>,
    <<"space", "--", "newline">>,
    <<"/*", "word", "newline", "--", "AS", "space", "*/", "newline">>,
    <<"/*", "space", "@A INT = 5,", "space", "*/", "space">>,
    <<"/*", "word", "/*", "word", "*/", "word", "*/", "newline">>,
    <<"/*", "/*", "word", "*/", "space", "@A INT = 5,", "space", "*/", "newline">>,
    <<"/*", "/*", "word", "*/", "word", "space", "AS", "space", "word", "*/", "newline">> }

\* CREATE PROCEDURE dbo.P @A INT = 1, @B INT = 2 AS, with comments before,
\* between and after the parameters.
UnitText(before, between, after) ==
  <<"CREATE PROCEDURE", "space", "dbo.P", "newline">> \o before
    \o <<"space", "@A INT = 1,", "newline">> \o between
    \o <<"space", "@B INT = 2", "newline">> \o after \o <<"AS", "newline">>

\* The IResult introspection returns for dbo.P when its definition is `text`.
TextSchema(text) ==
  [name |-> "dbo.P", by |-> 0,
   rows |-> << CatalogRow(<<"@","A">>, tInt, "IN", NoNumber),
               CatalogRow(<<"@","B">>, tInt, "IN", NoNumber) >>,
   definition |-> DefinitionOf(text)]

\* parseStoredProcedureParameters for a definition with comments, then for
\* the same definition without them.
CallParseDefinitionText ==
  /\ probe = NoProbe
  /\ \E before, between, after \in UnitComments :
       LET text == UnitText(before, between, after)
           commented == parseStoredProcedureParameters(TextSchema(text), lastIndex)
           plain == parseStoredProcedureParameters(
                      TextSchema(WithoutComments(text, 1, 0, FALSE)), commented.lastIndex)
       IN /\ probe' = [fn |-> "parseDefinitionText",
                       args |-> [text |-> text, lastIndex |-> lastIndex],
                       out |-> [commented |-> [ok |-> commented.ok, error |-> commented.error,
                                               parameters |-> commented.parameters],
                                plain |-> [ok |-> plain.ok, error |-> plain.error,
                                           parameters |-> plain.parameters]],
                       prev |-> NoProbe.prev]
          /\ lastIndex' = plain.lastIndex
  /\ UNCHANGED schemas
  /\ FacadeUnchanged

\* The inputs the prepared-parameter map is derived with.
UnitInputs ==
  { <<>>,
    << [k |-> <<"n","a","m","e">>, v |-> JsString(<<"z">>)], [k |-> <<"i","d">>, v |-> JsNumber(0)] >> }

\* The previous call, when it was a derivation of the prepared-parameter map.
Previous ==
  IF probe.fn = "parseStoredProcedureParameters"
    THEN [fn |-> probe.fn, args |-> probe.args, out |-> probe.out]
    ELSE NoProbe.prev

\* The derivation of the prepared-parameter map as executeStoredProcedure
\* makes it: parseStoredProcedureParameters(name, schema), which writes the
\* defaults into the rows of the schema object and moves lastIndex, then
\* prepareParameters(parameters, input).  Derivations may follow each other.
CallParseAndPrepareParameters ==
  /\ probe.fn \in {"none", "parseStoredProcedureParameters"}
  /\ \E schema \in DOMAIN schemas : \E input \in UnitInputs :
       LET parsed == parseStoredProcedureParameters(schemas[schema], lastIndex) IN
       /\ schemas' = [schemas EXCEPT ![schema].rows = parsed.rows]
       /\ lastIndex' = parsed.lastIndex
       /\ probe' = [fn |-> "parseStoredProcedureParameters",
                    args |-> [schema |-> schema, object |-> schemas[schema],
                             input |-> input],
                    out |-> [ok |-> parsed.ok, error |-> parsed.error,
                             parameters |-> parsed.parameters,
                             prepared |-> prepareParameters(parsed.parameters, input)],
                    prev |-> Previous]
  /\ FacadeUnchanged

\* The call has returned or thrown.
Return ==
  /\ probe.fn # "none"
  /\ probe' = NoProbe
  /\ UNCHANGED << schemas, lastIndex >>
  /\ FacadeUnchanged

UnitNext ==
  \/ CallMapDbTypeToDriverType
  \/ CallConvertSqlValueToJsValue
  \/ CallPrepareStoredProcedureRequest
  \/ CallPrepareStoredProcedureResult
  \/ CallParseAndPrepareParameters
  \/ CallParseDefinitionText
  \/ CallCatalogFilter
  \/ CallParseParameterSection
  \/ Return

UnitSpec == UnitInit /\ [][UnitNext]_vars

(***************************************************************************)
(* Properties.                                                             *)
(***************************************************************************)
Done(p) == inv[p].pc = "done"

Failed(p) == Done(p) /\ inv[p].outcome.status = "error"

Succeeded(p) == Done(p) /\ inv[p].outcome.status = "envelope"

\* The schema the schema cache holds under `name`, 0 when none.
CachedSchema(name) ==
  IF HasKey(schemaCache, hashKey(name)) THEN Get(schemaCache, hashKey(name)) ELSE 0

MissingRequiredParameters == "Missing required parameters"

AllStages ==
  <<"schema resolution", "parse", "prepare", "validate", "bind", "execute", "normalize">>

\* The call executeStoredProcedureQuery('dbo.GetPeople', {page: 1, pageSize: 10}).
IsPageAndPageSizeCall(call) ==
  /\ call.name = "dbo.GetPeople"
  /\ call.input = << [k |-> kPage, v |-> JsNumber(1)], [k |-> kPageSize, v |-> JsNumber(10)] >>

\* C1: for the procedure with @Page (IN), @PageSize (IN) and @RecordCount
\* (OUTPUT) and no defaults, the call with {page: 1, pageSize: 10} raises no
\* missing-required-parameter error.  The code raises it: @RecordCount has
\* neither a value nor a default, and getMissingRequiredParameters does not
\* look at the mode.
C1_OutputParameterNotRequired ==
  \A p \in Invocations :
    Done(p) /\ IsPageAndPageSizeCall(inv[p].call)
      => inv[p].outcome.error.kind # MissingRequiredParameters

\* Whether the input holds a value for the parameter, whatever the case of its key.
Supplied(input, parameterName) ==
  \E i \in DOMAIN input :
    /\ ToLowerCase(input[i].k) = ToLowerCase(parameterName)
    /\ ~IsUndefined(input[i].v)

\* The parameters of the catalog the call's input holds no value for.
Unsupplied(call) ==
  LET rows == Catalog(call.name).rows
  IN {Slice1(rows[i].name) : i \in {j \in DOMAIN rows : ~Supplied(call.input, Slice1(rows[j].name))}}

HasNoDefaults(name) == Catalog(name).definition.declarations = <<>>

\* C2: for a procedure none of whose parameters has a default, validation
\* fails exactly when some parameter has no supplied value, with one error
\* that counts and names every such parameter (all N-M of them, not the
\* first only), and the procedure is not executed.
C2_AllMissingParametersReported ==
  \A p \in Invocations :
    LET r == inv[p]
        e == r.outcome.error
    IN /\ Failed(p) /\ e.kind = MissingRequiredParameters /\ HasNoDefaults(r.call.name)
            => /\ e.count = Cardinality(Unsupplied(r.call))
               /\ Len(e.names) = e.count
               /\ {e.names[i] : i \in DOMAIN e.names} = Unsupplied(r.call)
               /\ r.outcome.failedAt = "validate"
               /\ ~r.executed
       /\ Done(p) /\ HasNoDefaults(r.call.name) /\ Unsupplied(r.call) # {}
            /\ Len(r.stages) >= 4
            => Failed(p) /\ e.kind = MissingRequiredParameters

\* C2 witness: validation has failed for want of two parameters at once.
C2_Witness ==
  \E p \in Invocations :
    /\ Failed(p)
    /\ inv[p].outcome.error.kind = MissingRequiredParameters
    /\ HasNoDefaults(inv[p].call.name)
    /\ inv[p].outcome.error.count = 2
    /\ Cardinality(Unsupplied(inv[p].call)) = 2

CoreFailures == {"parse", "validate", "bind", "execute"}

\* C3 as stated: an invocation that fails (missing required parameter, parse
\* failure, unknown mode, driver execution error) has written no cache.
C3_NoCacheWriteOnFailure ==
  \A p \in Invocations :
    Failed(p) /\ inv[p].outcome.failedAt \in CoreFailures => inv[p].wrote = {}

\* C3, corrected: a failing invocation makes the cache writes every
\* invocation makes before the stage that fails, and no other.  It writes a
\* pool cache only with a pool it constructed for that cache and its own
\* configuration; it writes the schema cache only after it missed, with the
\* schema it introspected for its own procedure.  When it fails while
\* acquiring its pool or resolving the schema the schema cache is not
\* written; when it fails later after a miss the schema stays cached.  No
\* name of the schema cache ever holds the schema of another procedure.
C3_FailureWritesOnlyItsOwnEntries ==
  /\ \A p \in Invocations :
       LET r == inv[p] IN
       Failed(p) =>
         /\ "schema" \in r.wrote
              => /\ r.hit = "miss"
                 /\ r.schema # 0
                 /\ schemas[r.schema].by = p
                 /\ schemas[r.schema].name = r.call.name
         /\ r.outcome.failedAt \in {"acquire", "schema resolution"} => "schema" \notin r.wrote
         /\ r.outcome.failedAt \in CoreFailures /\ r.hit = "miss" => "schema" \in r.wrote
         /\ \A c \in r.wrote \cap PoolCacheKinds :
              \E i \in DOMAIN pools :
                /\ pools[i].by = p
                /\ pools[i].cache = c
                /\ pools[i].config = OptionsOf(r.call.facade, c).config
  /\ \A n \in ProcedureNames :
       CachedSchema(n) # 0 => schemas[CachedSchema(n)].name = n

\* C3 witness: an invocation that missed the schema cache has failed in
\* validation, and has written the schema cache and a pool cache.
C3_Witness ==
  \E p \in Invocations :
    /\ Failed(p)
    /\ inv[p].outcome.failedAt = "validate"
    /\ "schema" \in inv[p].wrote
    /\ inv[p].wrote \cap PoolCacheKinds # {}
    /\ CachedSchema(inv[p].call.name) = inv[p].schema

\* The invocations of executeStoredProcedure for `name` have not overlapped,
\* no entry of `name` has expired, and none of them has failed to introspect.
Successive(name) ==
  /\ ~schemaHist[name].overlap
  /\ ~schemaHist[name].dropped
  /\ ~schemaHist[name].failed

\* C4: when the invocations of executeStoredProcedure for one procedure
\* follow each other without overlap, the first one's introspection
\* succeeds and the cache entry does not expire, one introspection query is
\* issued in all: the later invocations hit the cache and issue none.
C4_OneIntrospectionForSuccessiveCalls ==
  \A n \in ProcedureNames :
    Successive(n) =>
      /\ schemaHist[n].queries <= 1
      /\ \A p \in Invocations :
           inv[p].call.name = n /\ inv[p].hit = "hit"
             => inv[p].queries = 0 /\ schemaHist[n].queries = 1
      /\ \A p, q \in Invocations :
           /\ p # q
           /\ inv[p].call.name = n /\ inv[q].call.name = n
           /\ inv[p].hit = "miss" /\ inv[q].hit # "unknown"
           => inv[q].hit = "hit"

\* C4 witness: two invocations for one procedure have ended, one after the
\* other; the first missed and the second hit.
C4_Witness ==
  \E p, q \in Invocations :
    /\ p # q
    /\ Done(p) /\ Done(q)
    /\ inv[p].call.name = inv[q].call.name
    /\ Successive(inv[p].call.name)
    /\ inv[p].hit = "miss" /\ inv[p].queries = 1
    /\ inv[q].hit = "hit" /\ inv[q].queries = 0

\* C5: the schema object the cache holds for a procedure has the content
\* introspection returns for it.  The code breaks this:
\* parseStoredProcedureParameters writes the default values into the rows of
\* the cached object.
C5_CachedSchemaIsRaw ==
  \A n \in ProcedureNames :
    CachedSchema(n) # 0
      => /\ schemas[CachedSchema(n)].rows = Catalog(n).rows
         /\ schemas[CachedSchema(n)].definition = Catalog(n).definition

\* The schema is what introspection returns for `name`, but for the default
\* values written into its rows.
ValidSchema(schema, name) ==
  /\ schema.name = name
  /\ schema.definition = Catalog(name).definition
  /\ Len(schema.rows) = Len(Catalog(name).rows)
  /\ \A i \in DOMAIN schema.rows :
       [schema.rows[i] EXCEPT !.defaultValue = JsUndefined] = Catalog(name).rows[i]

\* C6: invocations for one procedure that miss the schema cache take no
\* lock: each issues its own introspection query and each writes the cache.
\* As long as no entry expires, the cache holds the schema of the one that
\* wrote last, and each of them goes on with the schema it introspected
\* itself, a valid one.
C6_LastWriterWins ==
  \A n \in ProcedureNames :
    LET h == schemaHist[n] IN
    /\ Len(h.writers) >= 1 /\ ~h.dropped
         => CachedSchema(n) = inv[h.writers[Len(h.writers)]].schema
    /\ h.queries >= Len(h.writers)
    /\ \A p \in Invocations :
         IsWriter(h, p) =>
           /\ inv[p].call.name = n
           /\ inv[p].hit = "miss"
           /\ inv[p].queries = 1
           /\ inv[p].schema # 0
           /\ schemas[inv[p].schema].by = p
           /\ ValidSchema(schemas[inv[p].schema], n)

\* C6 witness: two invocations for one procedure have both missed, both
\* written the cache, and both returned an envelope.
C6_Witness ==
  \E p, q \in Invocations :
    /\ p # q
    /\ Succeeded(p) /\ Succeeded(q)
    /\ inv[p].call.name = inv[q].call.name
    /\ IsWriter(schemaHist[inv[p].call.name], p)
    /\ IsWriter(schemaHist[inv[p].call.name], q)
    /\ ~schemaHist[inv[p].call.name].dropped
    /\ CachedSchema(inv[p].call.name) = inv[q].schema

\* C7: an invocation ends with the envelope or with the error of the first
\* stage that failed.  Because of the logging (C8) it does not: an
\* invocation all of whose stages have run can still be rejected.
C7_AllStagesRunGivesEnvelope ==
  \A p \in Invocations : Done(p) /\ inv[p].stages = AllStages => Succeeded(p)

\* C8: logging does not change the outcome of an invocation.  The code lets
\* what a logger method throws reach the caller.
C8_LoggerNeverRejects ==
  \A p \in Invocations : Done(p) => inv[p].outcome.error.kind # LoggerThrew.kind

\* C9: a query runs the procedure on a request bound to a pool of the query
\* cache made from the query configuration, and calls no logger but the
\* query logger; a mutation likewise with the mutation cache, configuration
\* and logger, which is the default logger when none was configured.
C9_KindDecidesPoolAndLogger ==
  \A p \in Invocations :
    LET r == inv[p] IN
    r.pc # "idle" =>
      /\ r.request.pool # 0
           => /\ pools[r.request.pool].cache = r.call.kind
              /\ pools[r.request.pool].config = OptionsOf(r.call.facade, r.call.kind).config
      /\ r.executed => r.request.pool # 0
      /\ r.logged \subseteq {LoggerOf(r.call.facade, r.call.kind)}
      /\ r.call.kind = "mutation" /\ Facade(r.call.facade).mutationOptions.logger = "undefined"
           => r.logged \subseteq {DevConsoleLogger}
      /\ r.call.kind = "query" => r.logged \subseteq {Facade(r.call.facade).queryOptions.logger}

\* C9 witness: a mutation of a facade with no mutation logger has returned
\* its envelope, having run on a pool of the mutation cache and logged with
\* the default logger.
C9_Witness ==
  \E p \in Invocations :
    /\ Succeeded(p)
    /\ inv[p].call.kind = "mutation"
    /\ inv[p].executed
    /\ pools[inv[p].request.pool].cache = "mutation"
    /\ inv[p].logged = {DevConsoleLogger}

\* C10: as long as the accesses to a pool cache under one configuration
\* follow each other and no entry expires, whichever facade makes them, one
\* pool is constructed, by the first access, and every access returns it.
C10_OnePoolPerConfiguration ==
  \A c \in DOMAIN poolHist :
    LET h == poolHist[c] IN
    ~h.race /\ ~h.dropped =>
      /\ h.constructed <= 1
      /\ Cardinality(h.returned) <= 1
      /\ h.accesses >= 2 => h.constructed = 1
      /\ \A i \in h.returned :
           pools[i].cache = c[1] /\ keyToHash(pools[i].config) = c[2]

\* C10 witness: two facades have read the query pool cache under the same
\* configuration one after the other; one pool was constructed, both hold
\* it, and it is connected.
C10_Witness ==
  \E c \in DOMAIN poolHist :
    /\ ~poolHist[c].race /\ ~poolHist[c].dropped
    /\ poolHist[c].accesses >= 2
    /\ poolHist[c].constructed = 1
    /\ \E i \in poolHist[c].returned : pools[i].connected
    /\ \E p, q \in Invocations :
         /\ inv[p].call.facade = "app" /\ inv[q].call.facade = "ops"
         /\ inv[p].pool \in poolHist[c].returned
         /\ inv[q].pool \in poolHist[c].returned

(***************************************************************************)
(* Properties of the functions called directly (UnitSpec).                 *)
(***************************************************************************)
Called(fn) == probe.fn = fn

\* The driver type the constructor of `ctor` gives when it is called with
\* the arguments of its family.
FamilyDriverType(ctor, length, precision, scale) ==
  CASE Family(ctor) = "length" -> DriverTypeOf(ctor, length, NoNumber)
    [] Family(ctor) = "scale" -> DriverTypeOf(ctor, scale, NoNumber)
    [] Family(ctor) = "precisionScale" -> DriverTypeOf(ctor, precision, scale)
    [] OTHER -> DriverTypeOf(ctor, NoNumber, NoNumber)

\* C12: for a type name the driver knows, mapDbTypeToDriverType gives what
\* the constructor returns for the arguments of its family: none, the
\* length, the scale, or the precision and the scale.  The code does not:
\* every constructor is a function, every function has a `length`, so every
\* constructor that takes arguments is called with the length alone.
C12_ConstructorGetsFamilyArguments ==
  Called("mapDbTypeToDriverType") =>
    LET a == probe.args
        property == findPropertyCaseInsensitive(a.type)
    IN property # 0 /\ Family(TYPES[property].ctor) # "tvpType"
         => probe.out = FamilyDriverType(TYPES[property].ctor, a.length, a.precision, a.scale)

\* C13: mapDbTypeToDriverType never throws; a type name no driver type
\* matches gives NVarChar, and so does the table-valued-parameter type.  The
\* code gives the TVP type for it: the branch that falls back is behind the
\* test for a `length`, which every constructor passes.
C13_UnknownAndTvpFallBackToText ==
  Called("mapDbTypeToDriverType") =>
    LET a == probe.args
        property == findPropertyCaseInsensitive(a.type)
    IN /\ probe.out.type # "throw"
       /\ property = 0 => probe.out = DriverTypeOf("NVarChar", NoNumber, NoNumber)
       /\ property # 0 /\ Family(TYPES[property].ctor) = "tvpType"
            => probe.out = DriverTypeOf("NVarChar", NoNumber, NoNumber)

\* The type text is of the table-valued or the user-defined family.
IsTvp(sqlType) == \E prefix \in TvpPrefixes : StartsWith(ToLowerCase(sqlType), prefix)

IsTvpOrUdt(sqlType) ==
  \E prefix \in TvpPrefixes \cup UdtPrefixes : StartsWith(ToLowerCase(sqlType), prefix)

NullLiteral == <<"N","U","L","L">>

\* C15 as stated: for a type of the table-valued or the user-defined family
\* convertSqlValueToJsValue fails whatever the literal.
C15_TvpAndUdtAlwaysFail ==
  Called("convertSqlValueToJsValue") /\ IsTvpOrUdt(probe.args.sqlType) => ~probe.out.ok

\* C15, corrected: for a type of the table-valued or the user-defined
\* family convertSqlValueToJsValue fails, with the error of that family, for
\* every literal but NULL; for the literal NULL it returns null, as for every
\* type.
C15_TvpAndUdtFailButForNull ==
  Called("convertSqlValueToJsValue") /\ IsTvpOrUdt(probe.args.sqlType) =>
    IF probe.args.value = NullLiteral
      THEN probe.out = Returned(JsNull)
      ELSE /\ ~probe.out.ok
           /\ probe.out.error =
                IF IsTvp(probe.args.sqlType)
                  THEN "TVPs are not supported" ELSE "UDTs are not supported"

\* C15 witness: the call with a user-defined type whose name goes on after
\* the prefix, and a literal that is not NULL, has failed.
C15_Witness ==
  /\ Called("convertSqlValueToJsValue")
  /\ probe.args.sqlType = <<"U","d","t","_","P","o","i","n","t">>
  /\ probe.args.value = <<"3","0">>
  /\ probe.out = Thrown("UDTs are not supported")

\* The value the input holds for the parameter named `parameterName`: that
\* of its last key equal to the name ignoring case, undefined without one.
InputValue(input, parameterName) ==
  LET hits == {i \in DOMAIN input : ToLowerCase(input[i].k) = ToLowerCase(parameterName)}
  IN IF hits = {} THEN JsUndefined ELSE input[CHOOSE i \in hits : \A j \in hits : j <= i].v

\* The names the rows declare, without the sigil.
DeclaredNames(rows) == {Slice1(rows[i].name) : i \in DOMAIN rows}

\* The entries of the input whose key is a declared name ignoring case.
MatchedInput(input, rows) ==
  LET Matches(entry) ==
        \E name \in DeclaredNames(rows) : ToLowerCase(entry.k) = ToLowerCase(name)
  IN SelectSeq(input, Matches)

BindFate(parameter) ==
  IF ~IsUndefined(parameter.defaultValue) /\ IsUndefined(parameter.value) THEN "skip"
  ELSE IF parameter.mode = "IN" THEN "input"
  ELSE IF parameter.mode = "INOUT" THEN "output"
  ELSE "fail"

\* Every prepared parameter has a value or a default.
NoneMissing(parameters) ==
  \A i \in DOMAIN parameters :
    ~IsUndefined(parameters[i].v.defaultValue) \/ ~IsUndefined(parameters[i].v.value)

\* C19: when no required parameter is missing, each prepared parameter, in
\* order, is passed over if it has a default and no value (whatever its
\* mode); otherwise it is bound as an input if its mode is IN and as an
\* output if it is INOUT; and the first one of another mode makes the call
\* fail with the unknown-parameter-mode error.
C19_BindByModeOrFail ==
  Called("prepareStoredProcedureRequest") /\ NoneMissing(probe.out.parameters) =>
    LET parameters == probe.out.parameters
        result == probe.out.result
        fails == {i \in DOMAIN parameters : BindFate(parameters[i].v) = "fail"}
        IsBound(entry) == BindFate(entry.v) \in {"input", "output"}
        Binding(entry) == [name |-> entry.v.name, io |-> BindFate(entry.v),
                           type |-> entry.v.type, value |-> entry.v.value]
        binds == SelectSeq(parameters, IsBound)
    IN IF fails = {}
         THEN /\ result.ok
              /\ result.request.parameters = [i \in DOMAIN binds |-> Binding(binds[i])]
         ELSE /\ ~result.ok
              /\ result.error.kind = "Unknown parameter mode"
              /\ result.stages[Len(result.stages)] = "bind"

\* C19 witness: @Old, of mode OUT, was given a value and the call has failed
\* with the unknown-parameter-mode error, after @pageSize was bound.
C19_Witness ==
  /\ Called("prepareStoredProcedureRequest")
  /\ \E i \in DOMAIN probe.out.parameters :
       /\ probe.out.parameters[i].v.mode = "OUT"
       /\ probe.out.parameters[i].v.value = JsNumber(2)
  /\ ~probe.out.result.ok
  /\ probe.out.result.error.kind = "Unknown parameter mode"
  /\ Len(probe.out.result.request.parameters) = 1

\* The names the definition of the schema declares with the default NULL
\* and the catalog has a row for.
DeclaredNull(schema) ==
  LET declarations == schema.definition.declarations
  IN {declarations[i].name : i \in {j \in DOMAIN declarations :
                                      /\ declarations[j].value = NullLiteral
                                      /\ SchemaMapIndex(schema.rows, declarations[j].name) # 0}}

\* C14: convertSqlValueToJsValue gives null for the literal NULL whatever
\* the type, and so a parameter declared with `= NULL` has a default and is
\* not reported as missing.  The first half holds.  The second does not: a
\* parse that starts with the lastIndex an earlier, failed parse left behind
\* passes over the declaration, and the parameter is left without default.
C14_NullIsADefault ==
  /\ Called("convertSqlValueToJsValue") /\ probe.args.value = NullLiteral
       => probe.out = Returned(JsNull)
  /\ Called("parseStoredProcedureParameters") /\ probe.out.ok
       => \A i \in DOMAIN probe.out.prepared :
            LET parameter == probe.out.prepared[i].v IN
            (<<"@">> \o parameter.name) \in DeclaredNull(schemas[probe.args.schema])
              => /\ parameter.defaultValue = JsNull
                 /\ \A j \in DOMAIN getMissingRequiredParameters(probe.out.prepared) :
                      getMissingRequiredParameters(probe.out.prepared)[j] # parameter.name

\* C17: two derivations of the prepared-parameter map from the same schema
\* and the same input, one after the other, give the same.  They do not when
\* the first one starts with the lastIndex a failed parse left behind, or is
\* itself the parse that fails.
C17_PreparationIsIdempotent ==
  /\ Called("parseStoredProcedureParameters")
  /\ probe.prev.fn = "parseStoredProcedureParameters"
  /\ probe.prev.args.schema = probe.args.schema
  /\ probe.prev.args.input = probe.args.input
  => probe.out = probe.prev.out

\* The name a field is given: the table's when the table has an entry for
\* the lower-cased name, the camelCase of the name otherwise.
Remapped(key, mapping) ==
  IF HasKey(mapping, ToLowerCase(key)) THEN Get(mapping, ToLowerCase(key)) ELSE camelCase(key)

\* The envelope has the field, with the value.
HasField(envelope, key, value) == HasKey(envelope, key) /\ Get(envelope, key) = value

\* C16: the envelope has under resultSets one entry per record set, in
\* order, with its rows in order and every field of a row under its remapped
\* name with its value; returnValue and rowsAffected are the driver's; every
\* output value is a top-level field under its remapped name.  The code
\* spreads the output object last, so an output parameter whose remapped
\* name is returnValue, resultSets or rowsAffected replaces that field; and
\* two fields of a row with one remapped name leave one value.
C16_EnvelopeCarriesEverything ==
  Called("prepareStoredProcedureResult") =>
    LET result == probe.args.result
        envelope == probe.out
        resultSets == Get(envelope, resultSetsKey)
    IN /\ HasKey(envelope, resultSetsKey)
       /\ resultSets.kind = "sets"
       /\ Len(resultSets.sets) = Len(result.recordsets)
       /\ \A n \in DOMAIN result.recordsets :
            /\ Len(resultSets.sets[n]) = Len(result.recordsets[n])
            /\ \A r \in DOMAIN result.recordsets[n] :
                 \A f \in DOMAIN result.recordsets[n][r] :
                   HasField(resultSets.sets[n][r],
                            Remapped(result.recordsets[n][r][f].k, probe.args.resultSetFields),
                            result.recordsets[n][r][f].v)
       /\ HasField(envelope, returnValueKey, EnvValue(result.returnValue))
       /\ HasField(envelope, rowsAffectedKey, EnvNumbers(result.rowsAffected))
       /\ \A f \in DOMAIN result.output :
            HasField(envelope, Remapped(result.output[f].k, probe.args.outputFields),
                     EnvValue(result.output[f].v))

\* The invocation's introspection query has been answered.
Answered(p) == inv[p].answer # NoAnswer

\* The schema cache holds no schema that invocation p introspected.
CachesNoSchemaOf(p) ==
  \A n \in ProcedureNames : CachedSchema(n) # 0 => schemas[CachedSchema(n)].by # p

\* C20 as stated: an answer whose number of record sets is not two gives
\* the schema-not-found error.
C20_NotTwoRecordsetsIsSchemaError ==
  \A p \in Invocations :
    Answered(p) /\ ~inv[p].answer.error /\ inv[p].answer.recordsets # 2
      => inv[p].outcome.error.kind = SchemaNotRetrieved

\* C20, corrected: introspection succeeds exactly when the query is
\* answered with two record sets of which the second has one row.  An answer
\* with no record set or more than two gives the schema-not-found error; an
\* answer with one record set, or with two of which the second has not
\* exactly one row, gives the definition-not-found error.  An invocation
\* whose introspection fails does not write the schema cache.
C20_TwoRecordsetsAndOneDefinitionRow ==
  \A p \in Invocations :
    Answered(p) =>
      LET r == inv[p]
          a == r.answer
          good == ~a.error /\ a.recordsets = 2 /\ a.definitionRows = 1
      IN /\ good <=> r.schema # 0
         /\ good => r.hit = "miss" /\ schemas[r.schema].by = p
         /\ ~good =>
              /\ Failed(p)
              /\ r.outcome.failedAt = "schema resolution"
              /\ r.outcome.error.kind =
                   IF a.error THEN "RequestError"
                   ELSE IF a.recordsets = 0 \/ a.recordsets > 2 THEN SchemaNotRetrieved
                   ELSE DefinitionNotRetrieved
              /\ "schema" \notin r.wrote
              /\ CachesNoSchemaOf(p)

\* C20 witness: the query was answered with one record set; the invocation
\* has failed with the definition-not-found error and the schema cache holds
\* nothing for its procedure.
C20_Witness ==
  \E p \in Invocations :
    /\ Answered(p)
    /\ ~inv[p].answer.error /\ inv[p].answer.recordsets = 1
    /\ Failed(p)
    /\ inv[p].outcome.error.kind = DefinitionNotRetrieved
    /\ CachedSchema(inv[p].call.name) = 0

\* C18: a definition with line and block comments around its parameter
\* list gives the parameters and defaults of the same definition without
\* the comments (the parse starting with lastIndex 0).  It does not when a
\* block comment holds another: commentRegex ends the comment at the first
\* */, and what follows it inside the outer comment is read as definition.
C18_CommentsDoNotMatter ==
  Called("parseDefinitionText") /\ probe.args.lastIndex = 0
    => probe.out.commented = probe.out.plain

\* The connect() calls in flight on pool i: the invocations suspended at
\* `await resolvedConnectionPool.connect()` with that pool.
Connecting(i) == Cardinality({p \in Invocations : inv[p].pc = "connect" /\ inv[p].pool = i})

\* C22: whatever the interleaving of the executeRequest calls on a pool,
\* no second connect() is issued on it while an earlier one is in flight.
\* Two calls that both read connected = false before either connect() has
\* resolved both call connect().
C22_NoSecondConnectInFlight ==
  \A i \in DOMAIN pools : Connecting(i) <= 1

\* C23: of the getConnectionPool calls made with one configuration on one
\* pool cache none of whose entries was dropped, exactly one constructs a
\* pool and all return that pool.  Two calls that both miss before either
\* has written the cache each construct a pool.
C23_OnePoolUnderConcurrency ==
  \A c \in DOMAIN poolHist :
    poolHist[c].accesses >= 1 /\ ~poolHist[c].dropped
      => /\ poolHist[c].constructed <= 1
         /\ Cardinality(poolHist[c].returned) <= 1

\* What C21 says of one executeRequest call: requestFn is invoked at most
\* once, and only with the pool resolved and connected, on a Request of
\* that pool; connect() is called exactly when the flag was false; a failed
\* connect() leaves requestFn uninvoked; and once the pool is connected
\* (the flag was true, or connect() has resolved) requestFn is invoked.
AsExecuteRequestShould(call) ==
  /\ call.fn <= 1
  /\ call.fn = 1 => call.pool # 0 /\ call.fnConnected /\ call.fnPool = call.pool
  /\ call.connect # "none" <=> call.flag = "false"
  /\ call.connect = "failed" => call.fn = 0
  /\ call.flag = "true" \/ call.connect = "ok" => call.fn = 1

\* C21: every executeRequest call awaits the pool, calls connect() exactly
\* when the pool is not connected, then invokes requestFn once with a
\* Request of that pool, and never invokes it when connect() fails.  It
\* does not invoke requestFn when the logger throws in logPerformance
\* after the pool is connected.
C21_RequestFnOnceWhenConnected ==
  \A p \in Invocations : \A k \in DOMAIN inv[p].calls :
    AsExecuteRequestShould(inv[p].calls[k])

\* C24: parseStoredProcedureParameters gives for a schema what it gives for
\* it with the pattern at its start (lastIndex 0), whatever calls preceded.
\* It does not after a parse that threw while converting a default: the
\* static pattern keeps the lastIndex of that parse, and the next parse
\* starts its search there.
C24_ParseDependsOnlyOnItsArguments ==
  Called("parseStoredProcedureParameters") =>
    LET fresh == parseStoredProcedureParameters(probe.args.object, 0) IN
    /\ probe.out.ok = fresh.ok
    /\ probe.out.error = fresh.error
    /\ probe.out.parameters = fresh.parameters

\* The pool cache the pool of the Request of an executeRequest call is of.
RequestPoolCache(call) == pools[call.fnPool].cache

\* C25: the introspection query is issued on the Request of a nested
\* executeRequest call, the invocation's second, whose pool is of the query
\* pool cache and connected; the procedure is executed on the Request of
\* the first call, whose pool is the one of the operation's kind; no Request
\* is used for both.  An invocation that hit the schema cache makes no
\* second call, so a mutation that hit it makes none on the query pool; an
\* invocation that missed it and has a schema has made the second call.
C25_IntrospectionOnQueryPool ==
  \A p \in Invocations :
    LET r == inv[p] IN
    /\ \A k \in DOMAIN r.calls :
         LET call == r.calls[k] IN
         /\ "query" \in call.used
              => /\ k = 2 /\ call.nested /\ call.fn = 1 /\ call.fnConnected
                 /\ RequestPoolCache(call) = "query"
         /\ "execute" \in call.used
              => /\ k = 1 /\ ~call.nested /\ call.fn = 1 /\ call.fnConnected
                 /\ RequestPoolCache(call) =
                      (IF r.call.kind = "mutation" THEN "mutation" ELSE "query")
         /\ call.used # {"query", "execute"}
    /\ r.queries = Cardinality({k \in DOMAIN r.calls : "query" \in r.calls[k].used})
    /\ r.executed <=> \E k \in DOMAIN r.calls : "execute" \in r.calls[k].used
    /\ r.hit = "hit" => Len(r.calls) = 1 /\ r.queries = 0
    /\ r.hit = "hit" /\ r.call.kind = "mutation" => r.calls[1].cache = "mutation"
    /\ r.hit = "miss" /\ r.schema # 0
         => /\ Len(r.calls) = 2
            /\ r.calls[2].cache = "query" /\ r.calls[2].used = {"query"}
            /\ r.calls[2].flag = "false" => r.calls[2].connect = "ok"

\* A mutation that missed the schema cache has connected the query pool,
\* introspected on it, and executed the procedure on its mutation pool.
C25_Witness ==
  \E p \in Invocations :
    /\ inv[p].call.kind = "mutation"
    /\ Succeeded(p)
    /\ inv[p].hit = "miss"
    /\ Len(inv[p].calls) = 2
    /\ inv[p].calls[2].connect = "ok"
    /\ inv[p].calls[2].used = {"query"}
    /\ inv[p].calls[1].used = {"execute"}
    /\ RequestPoolCache(inv[p].calls[1]) = "mutation"
    /\ RequestPoolCache(inv[p].calls[2]) = "query"

\* The name of a type without its arguments: the text before "(".
RECURSIVE BaseName(_)
BaseName(s) ==
  IF Len(s) = 0 \/ Head(s) = "(" THEN <<>> ELSE <<Head(s)>> \o BaseName(Tail(s))

CharacterTypes ==
  { <<"v","a","r","c","h","a","r">>,
    <<"n","v","a","r","c","h","a","r">>,
    <<"c","h","a","r">>,
    <<"n","c","h","a","r">>,
    <<"t","e","x","t">>,
    <<"n","t","e","x","t">>,
    <<"x","m","l">>,
    <<"u","n","i","q","u","e","i","d","e","n","t","i","f","i","e","r">> }

NumericTypes ==
  { <<"i","n","t">>,
    <<"s","m","a","l","l","i","n","t">>,
    <<"t","i","n","y","i","n","t">>,
    <<"b","i","g","i","n","t">>,
    <<"d","e","c","i","m","a","l">>,
    <<"n","u","m","e","r","i","c">>,
    <<"f","l","o","a","t">>,
    <<"r","e","a","l">>,
    <<"m","o","n","e","y">>,
    <<"s","m","a","l","l","m","o","n","e","y">> }

TemporalTypes ==
  { <<"d","a","t","e">>,
    <<"d","a","t","e","t","i","m","e">>,
    <<"d","a","t","e","t","i","m","e","2">>,
    <<"s","m","a","l","l","d","a","t","e","t","i","m","e">>,
    <<"t","i","m","e">> }

BinaryTypes ==
  { <<"b","i","n","a","r","y">>,
    <<"v","a","r","b","i","n","a","r","y">>,
    <<"i","m","a","g","e">>,
    <<"r","o","w","v","e","r","s","i","o","n">>,
    <<"t","i","m","e","s","t","a","m","p">> }

SpatialTypes ==
  { <<"h","i","e","r","a","r","c","h","y","i","d">>,
    <<"g","e","o","m","e","t","r","y">>,
    <<"g","e","o","g","r","a","p","h","y">> }

\* The family of a type of SQL Server, by its name.
TypeFamily(sqlType) ==
  LET name == ToLowerCase(BaseName(sqlType)) IN
  CASE name \in CharacterTypes -> "character"
    [] name \in NumericTypes -> "numeric"
    [] name = <<"b","i","t">> -> "bit"
    [] name \in TemporalTypes -> "temporal"
    [] name \in BinaryTypes -> "binary"
    [] name \in SpatialTypes -> "spatial"
    [] OTHER -> "none"

\* C26: for a literal other than NULL, convertSqlValueToJsValue gives a
\* string for a character type, a number for a numeric type, a boolean for
\* bit, a date for a temporal type, bytes for a binary type and for
\* timestamp and rowversion, the literal itself for a spatial type, and
\* throws for a type of no family.  It gives a date for timestamp, whose
\* name starts with "time", the temporal test coming first.
C26_ConvertedByFamily ==
  Called("convertSqlValueToJsValue") /\ probe.args.value # NullLiteral =>
    LET family == TypeFamily(probe.args.sqlType)
        out == probe.out
    IN CASE family = "character" -> out = Returned(JsString(probe.args.value))
         [] family = "numeric" -> out.ok /\ out.value.t \in {"number", "NaN"}
         [] family = "bit" -> out.ok /\ out.value.t = "boolean"
         [] family = "temporal" -> out.ok /\ out.value.t = "date"
         [] family = "binary" -> out.ok /\ out.value.t = "buffer"
         [] family = "spatial" -> out = Returned(JsString(probe.args.value))
         [] OTHER -> ~out.ok

\* C27: the filter of the introspection query has the schema and the
\* unqualified name of the identifier, quoted or not, of two parts or of
\* three.  Of an identifier of three parts it has the database as schema
\* and the schema as name.
C27_FilterBySchemaAndName ==
  Called("catalogFilter") =>
    /\ probe.out.schema = probe.args.id.schema
    /\ probe.out.name = probe.args.id.name

\* C28: the parse returns one parameter per catalog name; a parameter has a
\* default value exactly when the parameter section declares one for it,
\* and a declaration of a name the catalog does not have adds nothing (the
\* parse starting with lastIndex 0).  A default declared after a type
\* written with a space, DECIMAL(10, 2), is not found: the pattern takes
\* the type to be text without space that "=" follows.
C28_DefaultsAsDeclared ==
  Called("parseParameterSection") /\ probe.args.lastIndex = 0 =>
    LET declared == probe.args.declared
        parameters == probe.out.parameters
    IN /\ probe.out.ok
       /\ Len(parameters) = 2
       /\ parameters[1].name = <<"@","A">> /\ parameters[2].name = <<"@","B">>
       /\ IsUndefined(parameters[1].defaultValue) <=> ~declared.defaultA
       /\ IsUndefined(parameters[2].defaultValue) <=> ~declared.defaultB

\* C29: the name of every field is decided on its own: the name table's
\* casing when the table has an entry for the lower-cased name, the camelCase
\* of the name otherwise (always, without a table).  So the names of a
\* remapped row are the remapped names of the row's columns, and the names of
\* the envelope are the three envelope names and the remapped output names.
\* The tables are plain objects: a column called Constructor finds the
\* inherited constructor property in any table, the empty one included.
C29_NameFromTableElseCamelCase ==
  Called("prepareStoredProcedureResult") =>
    LET result == probe.args.result
        resultSets == Get(probe.out, resultSetsKey)
    IN /\ \A f \in DOMAIN result.output :
            HasKey(probe.out, Remapped(result.output[f].k, probe.args.outputFields))
       /\ Keys(probe.out) =
            {resultSetsKey, returnValueKey, rowsAffectedKey}
              \cup {Remapped(result.output[f].k, probe.args.outputFields) : f \in DOMAIN result.output}
       /\ resultSets.kind = "sets" =>
            \A n \in DOMAIN result.recordsets : \A r \in DOMAIN result.recordsets[n] :
              Keys(resultSets.sets[n][r]) =
                {Remapped(result.recordsets[n][r][f].k, probe.args.resultSetFields) :
                   f \in DOMAIN result.recordsets[n][r]}

\* The same, for results without a column or an output called constructor.
C29_ButForInheritedNames ==
  /\ Called("prepareStoredProcedureResult")
  /\ \A n \in DOMAIN probe.args.result.recordsets :
       \A r \in DOMAIN probe.args.result.recordsets[n] :
         \A f \in DOMAIN probe.args.result.recordsets[n][r] :
           ToLowerCase(probe.args.result.recordsets[n][r][f].k) # ConstructorKey
  => C29_NameFromTableElseCamelCase

\* C30: resultSets is the list of remapped record sets, returnValue and
\* rowsAffected are the driver's values, whatever the output parameters are
\* called.  The output object is spread after the three fields.
C30_OutputsDoNotReplaceEnvelopeFields ==
  Called("prepareStoredProcedureResult") =>
    LET result == probe.args.result
    IN /\ Get(probe.out, resultSetsKey) =
            EnvSets([n \in DOMAIN result.recordsets |->
                      [r \in DOMAIN result.recordsets[n] |->
                        mapKeysWithMapping(result.recordsets[n][r], probe.args.resultSetFields)]])
       /\ Get(probe.out, returnValueKey) = EnvValue(result.returnValue)
       /\ Get(probe.out, rowsAffectedKey) = EnvNumbers(result.rowsAffected)

\* The same, for outputs none of which is remapped to an envelope name.
C30_ButForEnvelopeNames ==
  /\ Called("prepareStoredProcedureResult")
  /\ \A f \in DOMAIN probe.args.result.output :
       Remapped(probe.args.result.output[f].k, probe.args.outputFields)
         \notin {resultSetsKey, returnValueKey, rowsAffectedKey}
  => C30_OutputsDoNotReplaceEnvelopeFields

=============================================================================
